---- MODULE Spec2Model ----
(***************************************************************************)
(* GravityWork backend: intent classification, the chat / confirm / pending *)
(* endpoints of backend/routers/chat.py and the scout -> plan -> execute    *)
(* workflow of backend/services/langgraph_agent.py.                         *)
(*                                                                          *)
(* Text is modelled as a sequence of one-character strings, so that         *)
(* str.lower(), the "in" operator and re.search on literal patterns are     *)
(* computed character by character as Python computes them.                 *)
(***************************************************************************)
EXTENDS Integers, Sequences, FiniteSets, TLC

\* ------------------------------------------------------------------------
\* Bounds of the model
\* ------------------------------------------------------------------------

\* longest query, in vocabulary words, that the classifier is applied to
MaxWords == 2

\* ------------------------------------------------------------------------
\* Text
\* ------------------------------------------------------------------------

UpperLetters ==
  <<"A", "B", "C", "D", "E", "F", "G", "H", "I", "J", "K", "L", "M", "N", "O", "P", "Q", "R", "S", "T", "U", "V", "W", "X", "Y", "Z">>

LowerLetters ==
  <<"a", "b", "c", "d", "e", "f", "g", "h", "i", "j", "k", "l", "m", "n", "o", "p", "q", "r", "s", "t", "u", "v", "w", "x", "y", "z">>

Digits ==
  {"0", "1", "2", "3", "4", "5", "6", "7", "8", "9"}

\* one character of str.lower()
LowerChar(c) ==
  IF \E i \in 1..Len(UpperLetters) : UpperLetters[i] = c
  THEN LowerLetters[CHOOSE i \in 1..Len(UpperLetters) : UpperLetters[i] = c]
  ELSE c

\* one character of str.upper()
UpperChar(c) ==
  IF \E i \in 1..Len(LowerLetters) : LowerLetters[i] = c
  THEN UpperLetters[CHOOSE i \in 1..Len(LowerLetters) : LowerLetters[i] = c]
  ELSE c

\* str.lower()
lower(s) ==
  [i \in 1..Len(s) |-> LowerChar(s[i])]

\* str.upper()
upper(s) ==
  [i \in 1..Len(s) |-> UpperChar(s[i])]

\* "pat in s", and re.search(pat, s) for a pattern without metacharacters
Contains(s, pat) ==
  \E i \in 0..(Len(s) - Len(pat)) : SubSeq(s, i + 1, i + Len(pat)) = pat


\* ------------------------------------------------------------------------
\* IntentRouter (backend/services/intent_router.py)
\* ------------------------------------------------------------------------

\* self.triage_keywords, in list order
triage_keywords ==
  << <<"j", "i", "r", "a">>,
     <<"t", "i", "c", "k", "e", "t">>,
     <<"i", "s", "s", "u", "e">>,
     <<"b", "u", "g">>,
     <<"f", "e", "a", "t", "u", "r", "e">>,
     <<"s", "p", "r", "i", "n", "t">>,
     <<"b", "a", "c", "k", "l", "o", "g">>,
     <<"b", "o", "a", "r", "d">>,
     <<"g", "i", "t", "h", "u", "b">>,
     <<"p", "r">>,
     <<"p", "u", "l", "l", " ", "r", "e", "q", "u", "e", "s", "t">>,
     <<"c", "o", "m", "m", "i", "t">>,
     <<"s", "t", "a", "t", "u", "s", " ", "o", "f">>,
     <<"w", "h", "o", " ", "i", "s", " ", "w", "o", "r", "k", "i", "n", "g", " ", "o", "n">>,
     <<"w", "h", "a", "t", " ", "i", "s", " ", "t", "h", "e", " ", "s", "t", "a", "t", "u", "s">> >>

\* self.action_keywords, in list order
action_keywords ==
  << <<"c", "r", "e", "a", "t", "e">>,
     <<"u", "p", "d", "a", "t", "e">>,
     <<"d", "e", "l", "e", "t", "e">>,
     <<"a", "s", "s", "i", "g", "n">>,
     <<"c", "l", "o", "s", "e">>,
     <<"o", "p", "e", "n">>,
     <<"m", "o", "v", "e">>,
     <<"c", "h", "a", "n", "g", "e">>,
     <<"s", "t", "a", "r", "t">>,
     <<"d", "e", "p", "l", "o", "y">>,
     <<"r", "u", "n">> >>


\* IntentType values
ACTION_INTENT == "action"
TRIAGE == "triage"
DIRECT_ANSWER == "direct_answer"
UNKNOWN == "unknown"

\* index of the first pattern of the list that re.search finds in s, 0 if none
\* (the for loop returns at the first match)
FirstMatch(patterns, s) ==
  IF \E i \in 1..Len(patterns) : Contains(s, patterns[i])
  THEN CHOOSE i \in 1..Len(patterns) :
         /\ Contains(s, patterns[i])
         /\ \A j \in 1..(i - 1) : ~Contains(s, patterns[j])
  ELSE 0

\* classify with IntentType.UNKNOWN as the result when no pattern matches
classify_default_unknown(query) ==
  LET query_lower == lower(query)
      a == FirstMatch(action_keywords, query_lower)
      t == FirstMatch(triage_keywords, query_lower)
  IN  IF a # 0
      THEN [intent |-> ACTION_INTENT, confidence |-> 7,
            reasoning |-> <<"Detected action keyword", action_keywords[a]>>]
      ELSE IF t # 0
      THEN [intent |-> TRIAGE, confidence |-> 8,
            reasoning |-> <<"Detected triage keyword", triage_keywords[t]>>]
      ELSE [intent |-> UNKNOWN, confidence |-> 0,
            reasoning |-> <<"No specific keywords found">>]

\* classify with the patterns searched in the query as typed, not lowercased
classify_case_sensitive(query) ==
  LET a == FirstMatch(action_keywords, query)
      t == FirstMatch(triage_keywords, query)
  IN  IF a # 0
      THEN [intent |-> ACTION_INTENT, confidence |-> 7,
            reasoning |-> <<"Detected action keyword", action_keywords[a]>>]
      ELSE IF t # 0
      THEN [intent |-> TRIAGE, confidence |-> 8,
            reasoning |-> <<"Detected triage keyword", triage_keywords[t]>>]
      ELSE [intent |-> DIRECT_ANSWER, confidence |-> 5,
            reasoning |-> <<"No specific keywords found">>]

\* classify with the triage patterns tried before the action patterns
classify_triage_first(query) ==
  LET query_lower == lower(query)
      a == FirstMatch(action_keywords, query_lower)
      t == FirstMatch(triage_keywords, query_lower)
  IN  IF t # 0
      THEN [intent |-> TRIAGE, confidence |-> 8,
            reasoning |-> <<"Detected triage keyword", triage_keywords[t]>>]
      ELSE IF a # 0
      THEN [intent |-> ACTION_INTENT, confidence |-> 7,
            reasoning |-> <<"Detected action keyword", action_keywords[a]>>]
      ELSE [intent |-> DIRECT_ANSWER, confidence |-> 5,
            reasoning |-> <<"No specific keywords found">>]

\* IntentRouter.classify; confidence is in tenths (7 is 0.7)
classify(query) ==
  LET query_lower == lower(query)
      a == FirstMatch(action_keywords, query_lower)
      t == FirstMatch(triage_keywords, query_lower)
  IN  IF a # 0
      THEN [intent |-> ACTION_INTENT, confidence |-> 7,
            reasoning |-> <<"Detected action keyword", action_keywords[a]>>]
      ELSE IF t # 0
      THEN [intent |-> TRIAGE, confidence |-> 8,
            reasoning |-> <<"Detected triage keyword", triage_keywords[t]>>]
      ELSE [intent |-> DIRECT_ANSWER, confidence |-> 5,
            reasoning |-> <<"No specific keywords found">>]


\* ------------------------------------------------------------------------
\* Queries
\* ------------------------------------------------------------------------

w_create ==
  <<"c", "r", "e", "a", "t", "e">>

w_Update ==
  <<"U", "p", "d", "a", "t", "e">>

w_delete ==
  <<"d", "e", "l", "e", "t", "e">>

w_change ==
  <<"c", "h", "a", "n", "g", "e">>

w_deploy ==
  <<"d", "e", "p", "l", "o", "y">>

w_ticket ==
  <<"t", "i", "c", "k", "e", "t">>

w_status_of ==
  <<"s", "t", "a", "t", "u", "s", " ", "o", "f">>

w_PROJ_1 ==
  <<"P", "R", "O", "J", "-", "1">>

w_hello ==
  <<"h", "e", "l", "l", "o">>

w_roadmap ==
  <<"r", "o", "a", "d", "m", "a", "p">>

w_product ==
  <<"p", "r", "o", "d", "u", "c", "t">>

w_report ==
  <<"r", "e", "p", "o", "r", "t">>


\* the words queries are made of
Vocabulary ==
  { w_create,
    w_Update,
    w_delete,
    w_change,
    w_deploy,
    w_ticket,
    w_status_of,
    w_PROJ_1,
    w_hello,
    w_roadmap,
    w_product,
    w_report }

\* the words of ws joined by single spaces
RECURSIVE Join(_)
Join(ws) ==
  IF Len(ws) = 0 THEN << >>
  ELSE IF Len(ws) = 1 THEN ws[1]
  ELSE ws[1] \o <<" ">> \o Join(Tail(ws))

\* every query of at most MaxWords vocabulary words, the empty query included
Queries ==
  { Join(ws) : ws \in UNION { [1..n -> Vocabulary] : n \in 0..MaxWords } }

\* the chat messages sent to the server, each with its characters
Text ==
  [m \in {"create ticket", "Update PROJ-1", "deploy", "status of PROJ-1", "hello"} |->
     CASE m = "create ticket" -> Join(<<w_create, w_ticket>>)
       [] m = "Update PROJ-1" -> Join(<<w_Update, w_PROJ_1>>)
       [] m = "deploy" -> w_deploy
       [] m = "status of PROJ-1" -> Join(<<w_status_of, w_PROJ_1>>)
       [] m = "hello" -> w_hello]

\* ------------------------------------------------------------------------
\* MCPClient (backend/services/mcp_client.py)
\* ------------------------------------------------------------------------

\* MCPClient.call_jira: the pair (success, data present).  The mock server's
\* fetch_data answers every action with the same six issues, PROJ-1 first;
\* a failure to import or construct it is caught and gives success = False.
call_jira ==
  { [success |-> TRUE, issues |-> TRUE], [success |-> FALSE, issues |-> FALSE] }

\* MCPClient.call_slack: SlackMCPServer inherits fetch_data of the base
\* class, which raises NotImplementedError (the def after the return of
\* create_slack_server is dead code); the exception is caught.
call_slack ==
  { [success |-> FALSE, issues |-> FALSE] }

\* ------------------------------------------------------------------------
\* LangGraphAgent (backend/services/langgraph_agent.py)
\* ------------------------------------------------------------------------

\* pending_action = None of AgentState
NoPlan ==
  [type |-> "none", summary |-> << >>]

\* the AgentState before the first node: no scratchpad, no pending action;
\* "last" is the content of messages[-1], ticket_id the local of _scout_node,
\* llm_output what _plan_node made of the language model's answer, calls the
\* MCPClient tools called so far and failed those that returned success =
\* False, stages the nodes entered so far
initial_state(query) ==
  [query |-> query, last |-> <<"human">>, ticket_id |-> << >>,
   jira_context |-> FALSE, kb |-> "not run", docs |-> 0,
   jira_search_results |-> FALSE, llm_output |-> "none",
   pending_action |-> NoPlan, calls |-> {}, failed |-> {}, stages |-> << >>]

\* re.search(r'([A-Z]+-\d+)', text.upper()): the leftmost match, the digits
\* taken greedily; the empty sequence stands for None
extract_ticket_id(text) ==
  LET u == upper(text)
      Letters == { UpperLetters[i] : i \in 1..Len(UpperLetters) }
      Hyphen(i) == CHOOSE h \in (i + 1)..Len(u) :
                     /\ \A k \in i..(h - 1) : u[k] \in Letters
                     /\ u[h] = "-"
      Starts == { i \in 1..Len(u) :
                    \E h \in (i + 1)..(Len(u) - 1) :
                      /\ \A k \in i..(h - 1) : u[k] \in Letters
                      /\ u[h] = "-"
                      /\ u[h + 1] \in Digits }
  IN  IF Starts = {} THEN << >>
      ELSE LET i0 == CHOOSE i \in Starts : \A j \in Starts : i <= j
               h0 == Hyphen(i0)
               e0 == CHOOSE e \in (h0 + 1)..Len(u) :
                       /\ \A k \in (h0 + 1)..e : u[k] \in Digits
                       /\ (e = Len(u) \/ u[e + 1] \notin Digits)
           IN  SubSeq(u, i0, e0)

\* the knowledge-base block of _scout_node: the number of hits put in the
\* scratchpad.  qdrant.collection_exists() is called without its required
\* collection_name, so the block always ends in its except branch.
qdrant_scout ==
  { 0 }

\* _scout_node, "1. Jira Scouting": with a ticket id in the query the
\* ticket is fetched; a failed fetch leaves a message and no jira_context
jira_scout(st) ==
  LET ticket_id == extract_ticket_id(Text[st.query])
  IN  IF ticket_id # << >>
      THEN { [st EXCEPT !.ticket_id = ticket_id,
                        !.jira_context = r.success,
                        !.calls = @ \cup {"get_ticket_status"},
                        !.failed = IF r.success THEN @ ELSE @ \cup {"get_ticket_status"},
                        !.last = IF r.success
                                 THEN <<"Found Jira ticket", ticket_id>>
                                 ELSE <<"Could not fetch ticket", ticket_id>>]
             : r \in call_jira }
      ELSE { st }

\* a knowledge-base block whose failure also loses what the tracker returned
kb_scout_drops_tracker(st) ==
  { IF d # 0
    THEN [st EXCEPT !.kb = "hits",
                    !.docs = d,
                    !.last = <<"Knowledge Base Results", d>>]
    ELSE [st EXCEPT !.kb = "failed",
                    !.jira_context = FALSE,
                    !.last = <<"human">>]
    : d \in qdrant_scout }

\* _scout_node, "2. Knowledge Base Scouting": the try block and its except;
\* kb tells how the block ended
kb_scout(st) ==
  { IF d # 0
    THEN [st EXCEPT !.kb = "hits",
                    !.docs = d,
                    !.last = <<"Knowledge Base Results", d>>]
    ELSE [st EXCEPT !.kb = "failed"]
    : d \in qdrant_scout }

\* a broad search decided on the knowledge-base hits alone
broad_search_ignoring_ticket_id(st) ==
  IF st.docs = 0
  THEN { [st EXCEPT !.calls = @ \cup {"search_tickets"},
                    !.failed = IF r.success THEN @ ELSE @ \cup {"search_tickets"},
                    !.jira_search_results = r.success /\ r.issues,
                    !.last = IF r.success /\ r.issues
                             THEN <<"Found related tickets in Jira">>
                             ELSE <<"No specific context found.">>]
         : r \in call_jira }
  ELSE { st }

\* _scout_node, the broad search: "if not ticket_id and not
\* scratchpad.get('docs')"
broad_search(st) ==
  IF st.ticket_id = << >> /\ st.docs = 0
  THEN { [st EXCEPT !.calls = @ \cup {"search_tickets"},
                    !.failed = IF r.success THEN @ ELSE @ \cup {"search_tickets"},
                    !.jira_search_results = r.success /\ r.issues,
                    !.last = IF r.success /\ r.issues
                             THEN <<"Found related tickets in Jira">>
                             ELSE <<"No specific context found.">>]
         : r \in call_jira }
  ELSE { st }

\* a scout that returns as soon as the ticket fetch has failed
scout_node_stops_on_tracker_failure(state) ==
  LET st == [state EXCEPT !.stages = Append(@, "scout")]
  IN  UNION { IF "get_ticket_status" \in s1.failed
              THEN { s1 }
              ELSE UNION { broad_search(s2) : s2 \in kb_scout(s1) }
              : s1 \in jira_scout(st) }

\* LangGraphAgent._scout_node: the states the node can return
scout_node(state) ==
  LET st == [state EXCEPT !.stages = Append(@, "scout")]
  IN  UNION { UNION { broad_search(s2) : s2 \in kb_scout(s1) }
              : s1 \in jira_scout(st) }

\* LangGraphAgent._mock_plan_node
mock_plan_node(state) ==
  LET query == lower(Text[state.query])
  IN  IF Contains(query, w_create) /\ Contains(query, w_ticket)
      THEN [state EXCEPT !.last = <<"Mock Plan: Create Ticket">>,
                         !.pending_action =
                            [type |-> "create_ticket", summary |-> <<"lower", state.query>>]]
      ELSE [state EXCEPT !.last = <<"Mock Response: I need an LLM to answer that.">>,
                         !.pending_action = NoPlan]

\* the action_type values a language-model answer of type "action" can name
LLMActionTypes ==
  {"create_ticket", "update_ticket", "slack_action", "get_status", "other"}

\* LangGraphAgent._plan_node: the states the node can return; llm tells
\* whether self.llm is set
plan_node(state, llm) ==
  LET st == [state EXCEPT !.stages = Append(@, "plan")]
  IN  IF llm
      THEN   \* ainvoke raised, or the parsed plan could not be used
             { [st EXCEPT !.llm_output = "raised",
                          !.last = <<"Sorry, I'm having trouble thinking right now.">>,
                          !.pending_action = NoPlan] }
        \cup \* no JSON object in the answer, or json.loads failed
             { [st EXCEPT !.llm_output = "unparseable",
                          !.last = <<"llm content">>,
                          !.pending_action = NoPlan] }
        \cup \* {"type": "response", ...}
             { [st EXCEPT !.llm_output = "response",
                          !.last = <<"llm response">>,
                          !.pending_action = NoPlan] }
        \cup \* {"type": "action", "action_type": t, "parameters": ...}
             { [st EXCEPT !.llm_output = "action",
                          !.last = <<"Planning action...">>,
                          !.pending_action =
                             [type |-> t, summary |-> <<"llm">>]]
               : t \in LLMActionTypes }
      ELSE { mock_plan_node(st) }

\* an execute node that reports success whatever the tool returned
execute_node_ignoring_result(state) ==
  LET st == [state EXCEPT !.stages = Append(@, "execute")]
      action_type == st.pending_action.type
  IN  IF st.pending_action = NoPlan
      THEN { st }
      ELSE IF action_type = "create_ticket"
      THEN { [st EXCEPT !.calls = @ \cup {"create_ticket"},
                        !.failed = IF r.success THEN @ ELSE @ \cup {"create_ticket"},
                        !.last = <<"check mark", "Ticket created successfully!">>]
             : r \in call_jira }
      ELSE IF action_type = "get_status"
      THEN { [st EXCEPT !.last = IF st.jira_context
                                 THEN <<"clipboard", "PROJ-1">>
                                 ELSE <<"clipboard", "Status information not available.">>] }
      ELSE IF action_type = "slack_action"
      THEN { [st EXCEPT !.calls = @ \cup {"get_slack_messages"},
                        !.failed = IF r.success THEN @ ELSE @ \cup {"get_slack_messages"},
                        !.last = <<"speech balloon", "Found recent messages in Slack.">>]
             : r \in call_slack }
      ELSE IF action_type = "update_ticket"
      THEN { [st EXCEPT !.last = <<"check mark", "Ticket update queued.">>] }
      ELSE { [st EXCEPT !.last = <<"information", "Retrieved information from knowledge base.">>] }

\* LangGraphAgent._execute_node: the states the node can return; the first
\* element of a message is the sign it begins with
execute_node(state) ==
  LET st == [state EXCEPT !.stages = Append(@, "execute")]
      action_type == st.pending_action.type
  IN  IF st.pending_action = NoPlan
      THEN { st }
      ELSE IF action_type = "create_ticket"
      THEN { [st EXCEPT !.calls = @ \cup {"create_ticket"},
                        !.failed = IF r.success THEN @ ELSE @ \cup {"create_ticket"},
                        !.last = IF r.success
                                 THEN <<"check mark", "Ticket created successfully!">>
                                 ELSE <<"cross mark", "Failed to create ticket">>]
             : r \in call_jira }
      ELSE IF action_type = "get_status"
      THEN { [st EXCEPT !.last = IF st.jira_context
                                 THEN <<"clipboard", "PROJ-1">>
                                 ELSE <<"clipboard", "Status information not available.">>] }
      ELSE IF action_type = "slack_action"
      THEN { [st EXCEPT !.calls = @ \cup {"get_slack_messages"},
                        !.failed = IF r.success THEN @ ELSE @ \cup {"get_slack_messages"},
                        !.last = IF r.success
                                 THEN <<"speech balloon", "Found recent messages in Slack.">>
                                 ELSE <<"cross mark", "Slack error">>]
             : r \in call_slack }
      ELSE IF action_type = "update_ticket"
      THEN { [st EXCEPT !.last = <<"check mark", "Ticket update queued.">>] }
      ELSE { [st EXCEPT !.last = <<"information", "Retrieved information from knowledge base.">>] }

\* LangGraphAgent.run with the graph of _build_graph: scout, plan, execute,
\* END; the final states one invocation can end in
run(query, llm) ==
  UNION { UNION { execute_node(s2) : s2 \in plan_node(s1, llm) }
          : s1 \in scout_node(initial_state(query)) }

\* LangGraphAgent.run, the except branch: the workflow raised before a stage
\* ran and the text "Agent execution failed: <str(e)>" is returned
run_failed(query) ==
  [initial_state(query) EXCEPT !.last = <<"Agent execution failed", "workflow">>]

\* ------------------------------------------------------------------------
\* Chat router (backend/routers/chat.py)
\* ------------------------------------------------------------------------

\* requests that can be in flight (awaiting agent.run) at the same time
MaxRequests == 2

\* distinct values of str(uuid.uuid4())[:8] (the program has 16^8 of them)
NumIds == 2

\* pending actions created in one behaviour (bounds the creation clock)
MaxActions == 2

Procs == 1..MaxRequests

Ids == 1..NumIds

\* the chat messages sent to the server
Messages ==
  DOMAIN Text

VARIABLES
  pending_actions,  \* _pending_actions: action_id -> action_data
  now,              \* the created_at clock: pending actions created so far
  api_key,          \* os.getenv("OPENROUTER_API_KEY") is set
  agent_llm,        \* LangGraphAgent._llm is set
  pc,               \* each request slot: "idle", or "running" at the await of agent.run
  req,              \* the request a running slot is serving
  action,           \* confirm_action's local "action", the popped record
  out,              \* the latest response sent, with its request and its agent run
  issued,           \* history: per created action, the id returned for it and
                    \* whether a confirm call has removed it
  last_list,        \* history: the list results since the latest confirm
  cls_query,        \* the classifier's input
  classification,   \* the classifier's output
  faults,           \* what raises in this deployment: building a service,
                    \* building or invoking the workflow
  graph,            \* one run of the workflow, stage by stage
  kb_hits,          \* the documents the knowledge store holds for a query
  mcp_server,       \* a threaded MCP server, its threads and its caller
  make_request,     \* one call of _make_request of the HTTP MCP server
  chunker           \* one call of a chunking service

\* the variables of the program and of its latest response
server_vars ==
  <<pending_actions, now, api_key, agent_llm, pc, req, action, out>>

\* the variables a request handler leaves alone
other_vars ==
  <<cls_query, classification, faults, graph, kb_hits, mcp_server, make_request,
    chunker>>

vars ==
  <<pending_actions, now, api_key, agent_llm, pc, req, action, out, issued,
    last_list, cls_query, classification, faults, graph, kb_hits,
    mcp_server, make_request, chunker>>

NoRequest ==
  [kind |-> "none", message |-> "", action_id |-> 0, approved |-> FALSE]

\* a popped record not there
NoRecord ==
  [type |-> "none", query |-> "", created_at |-> 0]

\* pending_action = None of ChatResponse
NoPending ==
  [action_id |-> 0, action_type |-> "none", description |-> "", parameters |-> ""]

\* the part of a response that tells of the agent run made for it, when
\* none was made
NoRun ==
  [ran |-> FALSE, executed |-> NoPlan, calls |-> {}]

\* the same of a run that ended in the AgentState fin
RunOf(fin) ==
  [ran |-> TRUE, executed |-> fin.pending_action, calls |-> fin.calls]

NoResponse ==
  [request |-> NoRequest, status |-> 0, body |-> [kind |-> "none"],
   action |-> NoRecord, run |-> NoRun]

\* no run of the workflow being followed
NoGraph ==
  [node |-> "none"]

\* no threaded MCP server constructed
NoServer ==
  [main |-> "none"]

\* no call of _make_request being followed
NoCall ==
  [at |-> "none"]

\* no call of a chunking service being followed
NoChunking ==
  [at |-> "none"]

\* what can raise: "agent" is get_agent (the import of langgraph_agent),
\* "qdrant" is get_intent_router or get_qdrant_service, "workflow" is
\* self.workflow (the graph's compilation) or its ainvoke
Faults ==
  {"agent", "qdrant", "workflow"}

NoClassification ==
  [intent |-> UNKNOWN, confidence |-> 0, reasoning |-> << >>]

NoList ==
  [n |-> 0, a |-> [kind |-> "none"], b |-> [kind |-> "none"], created |-> FALSE,
   since |-> FALSE, before |-> << >>, after |-> << >>]

\* ChatRequest
ChatRequests ==
  { [kind |-> "chat", message |-> m, action_id |-> 0, approved |-> FALSE]
    : m \in Messages }

\* ConfirmRequest
ConfirmRequests ==
  { [kind |-> "confirm", message |-> "", action_id |-> i, approved |-> b]
    : i \in Ids, b \in BOOLEAN }

\* GET /pending
ListRequest ==
  [kind |-> "pending", message |-> "", action_id |-> 0, approved |-> FALSE]

\* the word list without "update"
DestructiveWords_without_update ==
  { w_create, w_delete, w_change }

\* the word list of chat_endpoint's "any(word in message_lower ...)"
DestructiveWords ==
  { w_create, w_delete, lower(w_Update), w_change }

\* confirmation demanded of every action request, whatever its words
needs_confirmation_every_action(message) ==
  classify(Text[message]).intent = ACTION_INTENT

\* confirmation demanded of every request that is not a direct answer
needs_confirmation_unless_direct(message) ==
  classify(Text[message]).intent # DIRECT_ANSWER

\* the condition under which chat_endpoint creates a pending action
needs_confirmation(message) ==
  /\ classify(Text[message]).intent = ACTION_INTENT
  /\ \E word \in DestructiveWords : Contains(lower(Text[message]), word)

\* every pending action taken for a ticket creation
action_type_always_create(message) ==
  "create_ticket"

\* the "type" chat_endpoint gives the pending action of a message
action_type(message) ==
  IF Contains(lower(Text[message]), w_create) THEN "create_ticket" ELSE "update"

\* classify, needs_confirmation, action_type and run over the messages of
\* the model (evaluated once)
Classified ==
  [m \in Messages |-> classify(Text[m])]

Confirmable ==
  { m \in Messages : needs_confirmation(m) }

ActionTypes ==
  [m \in Messages |-> action_type(m)]

Runs ==
  [x \in Messages \X BOOLEAN |-> run(x[1], x[2])]

\* a run without its except branch: a workflow that raises returns nothing
agent_run_unguarded(message, l) ==
  IF "workflow" \in faults THEN {} ELSE Runs[<<message, l>>]

\* agent.run(query): the final states of the workflow, or the state of the
\* except branch when the workflow raises
agent_run(message, l) ==
  IF "workflow" \in faults THEN { run_failed(message) } ELSE Runs[<<message, l>>]

\* str(uuid.uuid4())[:8]: any of the identifiers, whatever the store holds
uuid4 ==
  Ids

\* a handler that answers with the pending action and stores nothing
store_skipped(pending, action_id, action_data) ==
  pending

\* _pending_actions[action_id] = action_data
store(pending, action_id, action_data) ==
  [i \in DOMAIN pending \cup {action_id} |->
     IF i = action_id THEN action_data ELSE pending[i]]

\* _pending_actions.pop(action_id): the store without the key
pop(pending, action_id) ==
  [i \in DOMAIN pending \ {action_id} |-> pending[i]]

\* self.llm at a plan stage: once set it stays; unset, it is set now if the
\* API key is there and the client can be built
llm_property ==
  IF agent_llm THEN {TRUE} ELSE IF api_key THEN BOOLEAN ELSE {FALSE}

\* the router after import: an empty store; get_intent_router, get_agent and
\* get_qdrant_service build their services on first use, and the services
\* are taken to be importable (their constructors open no connection)
Init ==
  /\ pending_actions = << >>
  /\ now = 0
  /\ api_key = FALSE
  /\ agent_llm = FALSE
  /\ pc = [p \in Procs |-> "idle"]
  /\ req = [p \in Procs |-> NoRequest]
  /\ action = [p \in Procs |-> NoRecord]
  /\ out = NoResponse
  /\ issued = << >>
  /\ last_list = NoList
  /\ cls_query = << >>
  /\ classification = NoClassification
  /\ faults = {}
  /\ graph = NoGraph
  /\ kb_hits = 0
  /\ mcp_server = NoServer
  /\ make_request = NoCall
  /\ chunker = NoChunking

\* a free slot takes the next request (the lowest free one)
Free(p) ==
  /\ pc[p] = "idle"
  /\ \A q \in 1..(p - 1) : pc[q] # "idle"

\* a handler that stores the pending action and stays in flight for the
\* decision
chat_pending_awaiting(p, request) ==
  \E action_id \in uuid4 :
    LET message == request.message
        cls == Classified[message]
        action_data == [type |-> ActionTypes[message],
                        query |-> message,
                        created_at |-> now + 1]
    IN  /\ now < MaxActions
        /\ pending_actions' = store(pending_actions, action_id, action_data)
        /\ now' = now + 1
        /\ out' = [request |-> request,
                   status |-> 200,
                   body |-> [kind |-> "chat",
                             response |-> <<"Confirmation Required",
                                            action_data.type, action_id>>,
                             intent |-> cls.intent,
                             confidence |-> cls.confidence,
                             sources |-> << >>,
                             requires_confirmation |-> TRUE,
                             pending_action |->
                               [action_id |-> action_id,
                                action_type |-> action_data.type,
                                description |-> message,
                                parameters |-> message]],
                   action |-> NoRecord,
                   run |-> NoRun]
        /\ pc' = [pc EXCEPT ![p] = "running"]
        /\ req' = [req EXCEPT ![p] = request]

\* chat_endpoint, the branch that creates a pending action and returns
chat_pending(p, request) ==
  \E action_id \in uuid4 :
    LET message == request.message
        cls == Classified[message]
        action_data == [type |-> ActionTypes[message],
                        query |-> message,
                        created_at |-> now + 1]
    IN  /\ now < MaxActions
        /\ pending_actions' = store(pending_actions, action_id, action_data)
        /\ now' = now + 1
        /\ out' = [request |-> request,
                   status |-> 200,
                   body |-> [kind |-> "chat",
                             response |-> <<"Confirmation Required",
                                            action_data.type, action_id>>,
                             intent |-> cls.intent,
                             confidence |-> cls.confidence,
                             sources |-> << >>,
                             requires_confirmation |-> TRUE,
                             pending_action |->
                               [action_id |-> action_id,
                                action_type |-> action_data.type,
                                description |-> message,
                                parameters |-> message]],
                   action |-> NoRecord,
                   run |-> NoRun]
        /\ UNCHANGED <<pc, req>>

\* chat_endpoint, the branches that call agent.run(request.message)
chat_run(p, request) ==
  /\ pc' = [pc EXCEPT ![p] = "running"]
  /\ req' = [req EXCEPT ![p] = request]
  /\ UNCHANGED <<pending_actions, now, out>>

\* chat_endpoint, a service cannot be built: the exception is caught by the
\* handler's except and answered HTTP 500 with str(e)
chat_fault(p, request) ==
  /\ out' = [request |-> request,
             status |-> 500,
             body |-> [kind |-> "error",
                       detail |-> IF "agent" \in faults
                                  THEN <<"agent">> ELSE <<"qdrant">>],
             action |-> NoRecord,
             run |-> NoRun]
  /\ UNCHANGED <<pending_actions, now, pc, req>>

\* chat_endpoint, from the request to its return or to the await of agent.run
chat_endpoint(p) ==
  /\ Free(p)
  /\ \E request \in ChatRequests :
       IF faults \cap {"agent", "qdrant"} # {}
       THEN chat_fault(p, request)
       ELSE IF request.message \in Confirmable
       THEN chat_pending(p, request)
       ELSE chat_run(p, request)
  /\ UNCHANGED <<api_key, agent_llm, action>>

\* the rest of chat_endpoint: agent.run returns and the ChatResponse is built
chat_return(p) ==
  /\ pc[p] = "running"
  /\ req[p].kind = "chat"
  /\ \E l \in llm_property :
       \E fin \in agent_run(req[p].message, l) :
         LET cls == Classified[req[p].message]
         IN  /\ agent_llm' = l
             /\ out' = [request |-> req[p],
                        status |-> 200,
                        body |-> [kind |-> "chat",
                                  response |-> fin.last,
                                  intent |-> cls.intent,
                                  confidence |-> cls.confidence,
                                  sources |-> << >>,
                                  requires_confirmation |-> FALSE,
                                  pending_action |-> NoPending],
                        action |-> NoRecord,
                        run |-> RunOf(fin)]
  /\ pc' = [pc EXCEPT ![p] = "idle"]
  /\ req' = [req EXCEPT ![p] = NoRequest]
  /\ UNCHANGED <<pending_actions, now, api_key, action>>

\* an unknown id taken as a cancellation: no membership test, pop with a default
confirm_not_found_cancelled(p, request) ==
  /\ out' = [request |-> request,
             status |-> 200,
             body |-> [kind |-> "confirm",
                       status |-> "cancelled",
                       message |-> <<"Action was cancelled by user">>,
                       result |-> << >>],
             action |-> NoRecord,
             run |-> NoRun]
  /\ UNCHANGED <<pending_actions, pc, req, action>>

\* confirm_action, action_id not in _pending_actions: HTTP 404
confirm_not_found(p, request) ==
  /\ out' = [request |-> request,
             status |-> 404,
             body |-> [kind |-> "error",
                       detail |-> <<"not found or expired", request.action_id>>],
             action |-> NoRecord,
             run |-> NoRun]
  /\ UNCHANGED <<pending_actions, pc, req, action>>

\* confirm_action, approved: the record is popped, then get_agent() is
\* called outside the try (when it raises the framework answers HTTP 500),
\* then agent.run is awaited
confirm_approved(p, request) ==
  /\ pending_actions' = pop(pending_actions, request.action_id)
  /\ IF "agent" \in faults
     THEN /\ out' = [request |-> request,
                     status |-> 500,
                     body |-> [kind |-> "error",
                               detail |-> <<"Internal Server Error">>],
                     action |-> pending_actions[request.action_id],
                     run |-> NoRun]
          /\ UNCHANGED <<pc, req, action>>
     ELSE /\ action' = [action EXCEPT ![p] = pending_actions[request.action_id]]
          /\ pc' = [pc EXCEPT ![p] = "running"]
          /\ req' = [req EXCEPT ![p] = request]
          /\ UNCHANGED out

\* a rejection that reads the record and leaves it in the store
confirm_rejected_keeps(p, request) ==
  /\ out' = [request |-> request,
             status |-> 200,
             body |-> [kind |-> "confirm",
                       status |-> "cancelled",
                       message |-> <<"Action was cancelled by user">>,
                       result |-> << >>],
             action |-> pending_actions[request.action_id],
             run |-> NoRun]
  /\ UNCHANGED <<pending_actions, pc, req, action>>

\* confirm_action, not approved: the record is popped, "cancelled" is returned
confirm_rejected(p, request) ==
  /\ pending_actions' = pop(pending_actions, request.action_id)
  /\ out' = [request |-> request,
             status |-> 200,
             body |-> [kind |-> "confirm",
                       status |-> "cancelled",
                       message |-> <<"Action was cancelled by user">>,
                       result |-> << >>],
             action |-> pending_actions[request.action_id],
             run |-> NoRun]
  /\ UNCHANGED <<pc, req, action>>

\* a confirm_action that awaits between reading the record and deleting it
confirm_action_racy(p) ==
  /\ \/ /\ Free(p)
        /\ \E request \in ConfirmRequests :
             IF request.action_id \notin DOMAIN pending_actions
             THEN confirm_not_found(p, request)
             ELSE /\ action' = [action EXCEPT ![p] = pending_actions[request.action_id]]
                  /\ pc' = [pc EXCEPT ![p] = "checked"]
                  /\ req' = [req EXCEPT ![p] = request]
                  /\ UNCHANGED <<pending_actions, out>>
     \/ /\ pc[p] = "checked"
        /\ pending_actions' = pop(pending_actions, req[p].action_id)
        /\ IF req[p].approved
           THEN /\ pc' = [pc EXCEPT ![p] = "running"]
                /\ UNCHANGED <<req, action, out>>
           ELSE /\ out' = [request |-> req[p],
                           status |-> 200,
                           body |-> [kind |-> "confirm",
                                     status |-> "cancelled",
                                     message |-> <<"Action was cancelled by user">>,
                                     result |-> << >>],
                           action |-> action[p],
                           run |-> NoRun]
                /\ pc' = [pc EXCEPT ![p] = "idle"]
                /\ req' = [req EXCEPT ![p] = NoRequest]
                /\ action' = [action EXCEPT ![p] = NoRecord]
  /\ UNCHANGED <<now, api_key, agent_llm>>

\* confirm_action, from the request to its return or to the await of
\* agent.run; the membership test and the pop have no await between them
confirm_action(p) ==
  /\ Free(p)
  /\ \E request \in ConfirmRequests :
       IF request.action_id \notin DOMAIN pending_actions
       THEN confirm_not_found(p, request)
       ELSE IF request.approved
       THEN confirm_approved(p, request)
       ELSE confirm_rejected(p, request)
  /\ UNCHANGED <<now, api_key, agent_llm>>

\* a status taken from the text of the result: "failed" for the text of a
\* workflow that raised
confirm_status_by_result(fin) ==
  IF fin.last[1] = "Agent execution failed" THEN "failed" ELSE "executed"

\* the status of the ConfirmResponse built when agent.run has returned fin
confirm_status(fin) ==
  "executed"

\* the rest of confirm_action: agent.run(action["query"]) returns and the
\* answer is "executed", or it raises and the answer is "failed"
confirm_return(p) ==
  /\ pc[p] = "running"
  /\ req[p].kind = "confirm"
  /\ \E l \in llm_property :
       /\ agent_llm' = l
       /\ IF \E fin \in agent_run(action[p].query, l) : TRUE
          THEN \E fin \in agent_run(action[p].query, l) :
                 out' = [request |-> req[p],
                         status |-> 200,
                         body |-> [kind |-> "confirm",
                                   status |-> confirm_status(fin),
                                   message |-> <<"Action completed successfully">>,
                                   result |-> fin.last],
                         action |-> action[p],
                         run |-> RunOf(fin)]
          ELSE out' = [request |-> req[p],
                       status |-> 200,
                       body |-> [kind |-> "confirm",
                                 status |-> "failed",
                                 message |-> <<"Action failed">>,
                                 result |-> << >>],
                       action |-> action[p],
                       run |-> NoRun]
  /\ pc' = [pc EXCEPT ![p] = "idle"]
  /\ req' = [req EXCEPT ![p] = NoRequest]
  /\ action' = [action EXCEPT ![p] = NoRecord]
  /\ UNCHANGED <<pending_actions, now, api_key>>

\* a listing that hands the records over and empties the store
get_pending_actions_draining(p) ==
  /\ Free(p)
  /\ out' = [request |-> ListRequest,
             status |-> 200,
             body |-> [kind |-> "pending",
                       pending_count |-> Cardinality(DOMAIN pending_actions),
                       actions |-> pending_actions],
             action |-> NoRecord,
             run |-> NoRun]
  /\ pending_actions' = << >>
  /\ UNCHANGED <<now, api_key, agent_llm, pc, req, action>>

\* get_pending_actions
get_pending_actions(p) ==
  /\ Free(p)
  /\ out' = [request |-> ListRequest,
             status |-> 200,
             body |-> [kind |-> "pending",
                       pending_count |-> Cardinality(DOMAIN pending_actions),
                       actions |-> pending_actions],
             action |-> NoRecord,
             run |-> NoRun]
  /\ UNCHANGED <<pending_actions, now, api_key, agent_llm, pc, req, action>>

\* the history of created actions after a step: a creation appends the id
\* the response carries, a removal marks the removed record
Issue ==
  issued' =
    LET gone == { pending_actions[i].created_at : i \in DOMAIN pending_actions }
                  \ { pending_actions'[i].created_at : i \in DOMAIN pending_actions' }
        kept == [c \in 1..Len(issued) |->
                   IF /\ c \in gone
                      /\ \A i \in DOMAIN pending_actions :
                           pending_actions[i].created_at = c =>
                             i \notin DOMAIN pending_actions'
                   THEN [issued[c] EXCEPT !.resolved = TRUE]
                   ELSE issued[c]]
    IN  IF now' = now + 1
        THEN Append(kept, [action_id |-> out'.body.pending_action.action_id,
                           resolved |-> FALSE])
        ELSE kept

\* one step of one request handler
Handler ==
  \E p \in Procs :
    \/ chat_endpoint(p)
    \/ chat_return(p)
    \/ confirm_action(p)
    \/ confirm_return(p)
    \/ get_pending_actions(p)

Next ==
  /\ Handler
  /\ Issue
  /\ UNCHANGED <<last_list, other_vars>>

Spec ==
  Init /\ [][Next]_vars

\* ------------------------------------------------------------------------
\* The classifier on its own
\* ------------------------------------------------------------------------

InitClassify ==
  /\ pending_actions = << >>
  /\ now = 0
  /\ api_key = FALSE
  /\ agent_llm = FALSE
  /\ pc = [p \in Procs |-> "idle"]
  /\ req = [p \in Procs |-> NoRequest]
  /\ action = [p \in Procs |-> NoRecord]
  /\ out = NoResponse
  /\ issued = << >>
  /\ last_list = NoList
  /\ cls_query \in Queries
  /\ classification = NoClassification
  /\ faults = {}
  /\ graph = NoGraph
  /\ kb_hits = 0
  /\ mcp_server = NoServer
  /\ make_request = NoCall
  /\ chunker = NoChunking

\* IntentRouter.classify is applied to the query
Classify ==
  /\ classification = NoClassification
  /\ classification' = classify(cls_query)
  /\ UNCHANGED <<server_vars, issued, last_list, cls_query, faults, graph,
                 kb_hits, mcp_server, make_request, chunker>>

NextClassify ==
  Classify

SpecClassify ==
  InitClassify /\ [][NextClassify]_vars

\* ------------------------------------------------------------------------
\* Concurrent confirm calls on a store that chat requests have filled
\* ------------------------------------------------------------------------

\* the records chat_endpoint can have stored as the c-th pending action
Records(c) ==
  { [type |-> ActionTypes[m], query |-> m, created_at |-> c] : m \in Confirmable }

\* the stores that chat requests with distinct ids leave
Stores ==
  UNION { { f \in [S -> UNION { Records(c) : c \in 1..Cardinality(S) }] :
              \A i, j \in S : i # j => f[i].created_at # f[j].created_at }
          : S \in { T \in SUBSET Ids : T # {} /\ Cardinality(T) <= MaxActions } }

InitRace ==
  /\ pending_actions \in Stores
  /\ now = Cardinality(DOMAIN pending_actions)
  /\ api_key = FALSE
  /\ agent_llm = FALSE
  /\ pc = [p \in Procs |-> "idle"]
  /\ req = [p \in Procs |-> NoRequest]
  /\ action = [p \in Procs |-> NoRecord]
  /\ out = NoResponse
  /\ issued = [c \in 1..now |->
                 [action_id |-> CHOOSE i \in DOMAIN pending_actions :
                                  pending_actions[i].created_at = c,
                  resolved |-> FALSE]]
  /\ last_list = NoList
  /\ cls_query = << >>
  /\ classification = NoClassification
  /\ faults = {}
  /\ graph = NoGraph
  /\ kb_hits = 0
  /\ mcp_server = NoServer
  /\ make_request = NoCall
  /\ chunker = NoChunking

NextRace ==
  /\ \E p \in Procs :
       \/ confirm_action(p)
       \/ confirm_return(p)
  /\ Issue
  /\ UNCHANGED <<last_list, other_vars>>

SpecRace ==
  InitRace /\ [][NextRace]_vars

\* ------------------------------------------------------------------------
\* The server with the history of its list calls
\* ------------------------------------------------------------------------

\* the history after a list call: b is its result and a the one before,
\* created tells of a pending action created between the two
Listed ==
  last_list' = [n |-> IF last_list.n = 0 THEN 1 ELSE 2,
                a |-> last_list.b,
                b |-> out'.body,
                created |-> last_list.since,
                since |-> FALSE,
                before |-> pending_actions,
                after |-> pending_actions']

\* the history after any other step: a confirm call that removes a record
\* ends it, a created pending action is noted
Unlisted ==
  last_list' =
    IF DOMAIN pending_actions' # DOMAIN pending_actions /\ now' = now
    THEN NoList
    ELSE IF now' = now + 1 /\ last_list.n > 0
    THEN [last_list EXCEPT !.since = TRUE]
    ELSE last_list

NextList ==
  /\ \E p \in Procs :
       \/ chat_endpoint(p) /\ Unlisted
       \/ chat_return(p) /\ Unlisted
       \/ confirm_action(p) /\ Unlisted
       \/ confirm_return(p) /\ Unlisted
       \/ get_pending_actions(p) /\ Listed
  /\ Issue
  /\ UNCHANGED other_vars

SpecList ==
  Init /\ [][NextList]_vars

\* ------------------------------------------------------------------------
\* The server in every deployment: with or without the API key of the
\* language model, with or without services and workflow that raise
\* ------------------------------------------------------------------------

InitEnv ==
  /\ pending_actions = << >>
  /\ now = 0
  /\ api_key \in BOOLEAN
  /\ agent_llm = FALSE
  /\ pc = [p \in Procs |-> "idle"]
  /\ req = [p \in Procs |-> NoRequest]
  /\ action = [p \in Procs |-> NoRecord]
  /\ out = NoResponse
  /\ issued = << >>
  /\ last_list = NoList
  /\ cls_query = << >>
  /\ classification = NoClassification
  /\ faults \in SUBSET Faults
  /\ graph = NoGraph
  /\ kb_hits = 0
  /\ mcp_server = NoServer
  /\ make_request = NoCall
  /\ chunker = NoChunking

NextEnv ==
  /\ Handler
  /\ Issue
  /\ UNCHANGED <<last_list, other_vars>>

SpecEnv ==
  InitEnv /\ [][NextEnv]_vars

\* ------------------------------------------------------------------------
\* The chat endpoint on its own, in every deployment
\* ------------------------------------------------------------------------

NextChat ==
  /\ \E p \in Procs :
       \/ chat_endpoint(p)
       \/ chat_return(p)
  /\ Issue
  /\ UNCHANGED <<last_list, other_vars>>

SpecChat ==
  InitEnv /\ [][NextChat]_vars

\* ------------------------------------------------------------------------
\* The chat endpoint over a knowledge store that holds documents
\* ------------------------------------------------------------------------

\* the documents a search of the knowledge store can return (the scout asks
\* for limit = 3)
MaxHits == 2

\* the Qdrant collection holds any number of documents that match; the
\* language model may or may not be configured
InitKnowledge ==
  /\ pending_actions = << >>
  /\ now = 0
  /\ api_key \in BOOLEAN
  /\ agent_llm = FALSE
  /\ pc = [p \in Procs |-> "idle"]
  /\ req = [p \in Procs |-> NoRequest]
  /\ action = [p \in Procs |-> NoRecord]
  /\ out = NoResponse
  /\ issued = << >>
  /\ last_list = NoList
  /\ cls_query = << >>
  /\ classification = NoClassification
  /\ faults = {}
  /\ graph = NoGraph
  /\ kb_hits \in 0..MaxHits
  /\ mcp_server = NoServer
  /\ make_request = NoCall
  /\ chunker = NoChunking

SpecKnowledge ==
  InitKnowledge /\ [][NextChat]_vars


\* ------------------------------------------------------------------------

\* workflow.set_entry_point("scout")
entry_point ==
  "scout"

\* edges that send a finished execute stage back to scout
edges_retry ==
  [n \in {"scout", "plan", "execute"} |->
     CASE n = "scout" -> "plan"
       [] n = "plan" -> "execute"
       [] n = "execute" -> "scout"]

\* the edges of _build_graph
edges ==
  [n \in {"scout", "plan", "execute"} |->
     CASE n = "scout" -> "plan"
       [] n = "plan" -> "execute"
       [] n = "execute" -> "END"]

\* run is called with a query
Started(m) ==
  [node |-> "START", state |-> initial_state(m)]

InitAgent ==
  /\ pending_actions = << >>
  /\ now = 0
  /\ api_key \in BOOLEAN
  /\ agent_llm = FALSE
  /\ pc = [p \in Procs |-> "idle"]
  /\ req = [p \in Procs |-> NoRequest]
  /\ action = [p \in Procs |-> NoRecord]
  /\ out = NoResponse
  /\ issued = << >>
  /\ last_list = NoList
  /\ cls_query = << >>
  /\ classification = NoClassification
  /\ faults \in {{}, {"workflow"}}
  /\ graph \in { Started(m) : m \in Messages }
  /\ kb_hits = 0
  /\ mcp_server = NoServer
  /\ make_request = NoCall
  /\ chunker = NoChunking

\* self.workflow.ainvoke(initial_state): the graph is entered at its entry
\* point, or the call raises and run goes to its except branch
ainvoke ==
  /\ graph.node = "START"
  /\ graph' = IF "workflow" \in faults
              THEN [node |-> "raised", state |-> run_failed(graph.state.query)]
              ELSE [graph EXCEPT !.node = entry_point]
  /\ UNCHANGED agent_llm

\* the node "scout" runs and the graph follows its edge
scout_stage ==
  /\ graph.node = "scout"
  /\ \E s \in scout_node(graph.state) :
       graph' = [node |-> edges["scout"], state |-> s]
  /\ UNCHANGED agent_llm

\* the node "plan" runs and the graph follows its edge
plan_stage ==
  /\ graph.node = "plan"
  /\ \E l \in llm_property :
       /\ agent_llm' = l
       /\ \E s \in plan_node(graph.state, l) :
            graph' = [node |-> edges["plan"], state |-> s]

\* the node "execute" runs and the graph follows its edge
execute_stage ==
  /\ graph.node = "execute"
  /\ \E s \in execute_node(graph.state) :
       graph' = [node |-> edges["execute"], state |-> s]
  /\ UNCHANGED agent_llm

\* run returns results["messages"][-1].content, or the text of its except
\* branch, and is called again with any query
run_returns ==
  /\ graph.node \in {"END", "raised"}
  /\ \E m \in Messages : graph' = Started(m)
  /\ UNCHANGED agent_llm

NextAgent ==
  /\ \/ ainvoke
     \/ scout_stage
     \/ plan_stage
     \/ execute_stage
     \/ run_returns
  /\ UNCHANGED <<pending_actions, now, api_key, pc, req, action, out, issued,
                 last_list, cls_query, classification, faults, kb_hits,
                 mcp_server, make_request, chunker>>

SpecAgent ==
  InitAgent /\ [][NextAgent]_vars

\* ------------------------------------------------------------------------
\* Threaded MCP server (mcp_servers/core/mcp_server.py) with the main loop
\* of ExampleServer (mcp_servers/example_server.py), its server threads and
\* the thread that calls start, stop and restart
\* ------------------------------------------------------------------------

\* calls of start, stop and restart made on one server
MaxCalls == 3

\* MCPServer.__init__: not running, no thread, the event not set; main is
\* where the calling thread stands, method the call it is in, threads the
\* position of every server thread started so far, history the calls that
\* have returned
constructed ==
  [main |-> "ready",
   method |-> "none",
   _running |-> FALSE,
   _shutdown_event |-> FALSE,
   _server_thread |-> 0,
   threads |-> << >>,
   history |-> << >>]

\* MCPServer.is_running
is_running ==
  mcp_server._running

\* MCPServer.health_check, its "status"
health_check ==
  IF mcp_server._running THEN "healthy" ELSE "stopped"

\* the caller calls start, stop or restart; restart begins with stop
call ==
  /\ mcp_server.main = "ready"
  /\ Len(mcp_server.history) < MaxCalls
  /\ \E m \in {"start", "stop", "restart"} :
       mcp_server' = [mcp_server EXCEPT !.method = m,
                                        !.main = IF m = "start" THEN "start" ELSE "stop"]

\* start has returned: the call is over (restart ends with start)
start_returns(srv) ==
  [srv EXCEPT !.main = "ready",
              !.method = "none",
              !.history = Append(@, srv.method)]

\* stop has returned: the call is over, or restart goes on to its sleep
stop_returns(srv) ==
  IF srv.method = "restart"
  THEN [srv EXCEPT !.main = "restart_sleep"]
  ELSE [srv EXCEPT !.main = "ready",
                   !.method = "none",
                   !.history = Append(@, srv.method)]

\* a start that returns at once when the flag is set and otherwise goes on
\* without setting it
start_check_without_flag ==
  /\ mcp_server.main = "start"
  /\ mcp_server' = IF mcp_server._running
                   THEN start_returns(mcp_server)
                   ELSE [mcp_server EXCEPT !.main = "start_clear"]

\* start: "if self._running: return", else self._running = True
start_check ==
  /\ mcp_server.main = "start"
  /\ mcp_server' = IF mcp_server._running
                   THEN start_returns(mcp_server)
                   ELSE [mcp_server EXCEPT !._running = TRUE,
                                           !.main = "start_clear"]

\* start: self._shutdown_event.clear()
start_clear ==
  /\ mcp_server.main = "start_clear"
  /\ mcp_server' = [mcp_server EXCEPT !._shutdown_event = FALSE,
                                      !.main = "start_thread"]

\* start: the server thread is created and started
start_thread ==
  /\ mcp_server.main = "start_thread"
  /\ mcp_server' = [mcp_server EXCEPT !._server_thread = Len(mcp_server.threads) + 1,
                                      !.threads = Append(@, "setup"),
                                      !.main = "start_sleep"]

\* start: time.sleep(1) is over and start returns
start_sleep ==
  /\ mcp_server.main = "start_sleep"
  /\ mcp_server' = start_returns(mcp_server)

\* stop: "if not self._running: return", else self._running = False
stop_check ==
  /\ mcp_server.main = "stop"
  /\ mcp_server' = IF ~mcp_server._running
                   THEN stop_returns(mcp_server)
                   ELSE [mcp_server EXCEPT !._running = FALSE,
                                           !.main = "stop_set"]

\* stop: self._shutdown_event.set()
stop_set ==
  /\ mcp_server.main = "stop_set"
  /\ mcp_server' = [mcp_server EXCEPT !._shutdown_event = TRUE,
                                      !.main = "stop_join"]

\* stop: self._server_thread.join(timeout=5) returns, because the thread has
\* ended or because the five seconds are over while it is still alive (the
\* warning "Server thread did not stop gracefully"), wherever the thread
\* stands; then stop returns
stop_join ==
  /\ mcp_server.main = "stop_join"
  /\ mcp_server' = stop_returns(mcp_server)

\* restart: time.sleep(1) is over and start is called
restart_sleep ==
  /\ mcp_server.main = "restart_sleep"
  /\ mcp_server' = [mcp_server EXCEPT !.main = "start"]

\* _run_server: _server_setup of ExampleServer
server_setup(t) ==
  /\ mcp_server.threads[t] = "setup"
  /\ mcp_server' = [mcp_server EXCEPT !.threads[t] = "loop"]

\* _server_main_loop: "while self.is_running()", the first half of the test
loop_running(t) ==
  /\ mcp_server.threads[t] = "loop"
  /\ mcp_server' = [mcp_server EXCEPT !.threads[t] =
                       IF mcp_server._running THEN "loop_event" ELSE "cleanup"]

\* _server_main_loop: "and not self._shutdown_event.is_set()", then the body
\* with its time.sleep(1)
loop_event(t) ==
  /\ mcp_server.threads[t] = "loop_event"
  /\ mcp_server' = [mcp_server EXCEPT !.threads[t] =
                       IF mcp_server._shutdown_event THEN "cleanup" ELSE "loop"]

\* _run_server, finally: self._server_cleanup()
server_cleanup(t) ==
  /\ mcp_server.threads[t] = "cleanup"
  /\ mcp_server' = [mcp_server EXCEPT !.threads[t] = "finally"]

\* _run_server, finally: self._running = False, and the thread ends
run_server_ends(t) ==
  /\ mcp_server.threads[t] = "finally"
  /\ mcp_server' = [mcp_server EXCEPT !._running = FALSE,
                                      !.threads[t] = "dead"]

InitServer ==
  /\ pending_actions = << >>
  /\ now = 0
  /\ api_key = FALSE
  /\ agent_llm = FALSE
  /\ pc = [p \in Procs |-> "idle"]
  /\ req = [p \in Procs |-> NoRequest]
  /\ action = [p \in Procs |-> NoRecord]
  /\ out = NoResponse
  /\ issued = << >>
  /\ last_list = NoList
  /\ cls_query = << >>
  /\ classification = NoClassification
  /\ faults = {}
  /\ graph = NoGraph
  /\ kb_hits = 0
  /\ mcp_server = constructed
  /\ make_request = NoCall
  /\ chunker = NoChunking

NextServer ==
  /\ \/ call
     \/ start_check
     \/ start_clear
     \/ start_thread
     \/ start_sleep
     \/ stop_check
     \/ stop_set
     \/ stop_join
     \/ restart_sleep
     \/ \E t \in DOMAIN mcp_server.threads :
          \/ server_setup(t)
          \/ loop_running(t)
          \/ loop_event(t)
          \/ server_cleanup(t)
          \/ run_server_ends(t)
  /\ UNCHANGED <<server_vars, issued, last_list, cls_query, classification,
                 faults, graph, kb_hits, make_request, chunker>>

SpecServer ==
  InitServer /\ [][NextServer]_vars

\* ------------------------------------------------------------------------
\* HTTP MCP server (mcp-servers/base_mcp_server.py): one call of
\* MCPServer._make_request after another
\* ------------------------------------------------------------------------

\* the largest max_retries of an MCPConfig (its default is 3)
MaxRetries == 3

\* requests.request raised a requests.exceptions.RequestException: there is
\* no response and no status code
RequestException == 0

\* what requests.request can do: answer with a status code, or raise
Replies ==
  {200, 401, 404, 500, 503, RequestException}

\* _make_request is called on a server with some MCPConfig; requests counts
\* the calls of requests.request, replies holds what they did
called(base_url, key, retries) ==
  [at |-> "called",
   api_base_url |-> base_url,
   config_api_key |-> key,
   max_retries |-> retries,
   authorization |-> FALSE,
   retry_count |-> 0,
   requests |-> 0,
   replies |-> << >>,
   status_code |-> 0,
   detail |-> "none"]

\* raise HTTPException(status_code, detail): no except clause of
\* _make_request catches it
raise_http(call_frame, code, text) ==
  [call_frame EXCEPT !.at = "raised", !.status_code = code, !.detail = text]

\* a call that goes to the loop without looking at the base URL
check_base_url_skipped ==
  /\ make_request.at = "called"
  /\ make_request' = [make_request EXCEPT !.at = "loop",
                                          !.authorization = make_request.config_api_key,
                                          !.retry_count = 0]

\* "if not self.config.api_base_url: raise"; else the Authorization header
\* is added when the configuration has an API key, retry_count = 0 and the
\* loop is entered
check_base_url ==
  /\ make_request.at = "called"
  /\ make_request' =
       IF ~make_request.api_base_url
       THEN raise_http(make_request, 500, "API base URL not configured")
       ELSE [make_request EXCEPT !.at = "loop",
                                 !.authorization = make_request.config_api_key,
                                 !.retry_count = 0]

\* "while retry_count < self.config.max_retries": requests.request is
\* called, or the loop is left and the final raise is reached
loop_test ==
  /\ make_request.at = "loop"
  /\ make_request' =
       IF make_request.retry_count < make_request.max_retries
       THEN [make_request EXCEPT !.at = "sent", !.requests = @ + 1]
       ELSE raise_http(make_request, 500, "Request failed")

\* what response.json() does with the body of a 200 answer: it returns the
\* parsed body, or the body is not JSON and it raises, depending on the
\* version of requests, requests.exceptions.JSONDecodeError (a
\* RequestException) or a ValueError
JsonOutcomes ==
  {"parsed", "RequestException", "ValueError"}

\* "except requests.exceptions.RequestException": the exception is counted
\* and the loop goes on, or at the last attempt it is turned into 503
except_request_exception(got) ==
  IF got.retry_count + 1 < got.max_retries
  THEN [got EXCEPT !.retry_count = @ + 1, !.at = "loop"]
  ELSE raise_http([got EXCEPT !.retry_count = @ + 1], 503,
                  "External API unavailable")

\* the body of the try and its except clause: 200 returns response.json();
\* 401, 404 and every other status raise an HTTPException, which is not a
\* RequestException and leaves _make_request, as a ValueError does; a
\* RequestException, from requests.request or from response.json(), goes
\* to the except clause
on_reply(reply, body) ==
  LET got == [make_request EXCEPT !.replies = Append(@, reply)]
  IN  IF reply = 200
      THEN IF body = "parsed"
           THEN [got EXCEPT !.at = "returned", !.status_code = 200, !.detail = "json"]
           ELSE IF body = "RequestException"
           THEN except_request_exception(got)
           ELSE [got EXCEPT !.at = "raised", !.status_code = 0, !.detail = "ValueError"]
      ELSE IF reply = 401
      THEN raise_http(got, 401, "Unauthorized access to external API")
      ELSE IF reply = 404
      THEN raise_http(got, 404, "Resource not found")
      ELSE IF reply = RequestException
      THEN except_request_exception(got)
      ELSE raise_http(got, reply, "External API error")

\* requests.request answers or raises
request_answered ==
  /\ make_request.at = "sent"
  /\ \E reply \in Replies, body \in JsonOutcomes :
       make_request' = on_reply(reply, body)

\* _make_request is called again, on a server with any configuration
next_call ==
  /\ make_request.at \in {"returned", "raised"}
  /\ \E base_url \in BOOLEAN, key \in BOOLEAN, retries \in 0..MaxRetries :
       make_request' = called(base_url, key, retries)

InitRequest ==
  /\ pending_actions = << >>
  /\ now = 0
  /\ api_key = FALSE
  /\ agent_llm = FALSE
  /\ pc = [p \in Procs |-> "idle"]
  /\ req = [p \in Procs |-> NoRequest]
  /\ action = [p \in Procs |-> NoRecord]
  /\ out = NoResponse
  /\ issued = << >>
  /\ last_list = NoList
  /\ cls_query = << >>
  /\ classification = NoClassification
  /\ faults = {}
  /\ graph = NoGraph
  /\ kb_hits = 0
  /\ mcp_server = NoServer
  /\ \E base_url \in BOOLEAN, key \in BOOLEAN, retries \in 0..MaxRetries :
       make_request = called(base_url, key, retries)
  /\ chunker = NoChunking

NextRequest ==
  /\ \/ check_base_url
     \/ loop_test
     \/ request_answered
     \/ next_call
  /\ UNCHANGED <<server_vars, issued, last_list, cls_query, classification,
                 faults, graph, kb_hits, mcp_server, chunker>>

SpecRequest ==
  InitRequest /\ [][NextRequest]_vars

\* ------------------------------------------------------------------------
\* ChunkingService (backend/services/chunking_service.py): one call of
\* chunk_document after another
\* ------------------------------------------------------------------------

\* the longest document
MaxText == 4

\* the largest chunk_size and overlap of a ChunkingService
MaxChunkSize == 3

\* the chunks followed in one call of _split_text
MaxChunks == 5

\* the characters of a document
Characters ==
  {"a", "b"}

Documents ==
  UNION { [1..n -> Characters] : n \in 0..MaxText }

\* a slice index of Python on a sequence of length n: a negative index counts
\* from the end, and the result is clamped to 0..n
slice_index(i, n) ==
  IF i < 0
  THEN (IF i + n < 0 THEN 0 ELSE i + n)
  ELSE (IF i > n THEN n ELSE i)

\* text[a:b] of Python, on the 1-based sequence
slice(text, a, b) ==
  LET lo == slice_index(a, Len(text))
      hi == slice_index(b, Len(text))
  IN  IF lo < hi THEN SubSeq(text, lo + 1, hi) ELSE << >>

\* min(a, b)
min(a, b) ==
  IF a < b THEN a ELSE b

\* hashlib.md5 of document[:100] and the metadata: documents here are
\* shorter than 100 characters and the metadata is fixed, so the digest
\* stands for the document
generate_doc_id(document) ==
  <<"md5", document>>

\* chunk_document is called on a service with chunk_size and overlap, and
\* _split_text is at its "while"
chunk_document_called(document, size, lap) ==
  [at |-> "while",
   document |-> document,
   chunk_size |-> size,
   overlap |-> lap,
   start |-> 0,
   chunks |-> << >>,
   chunk_objects |-> << >>]

\* _split_text, one iteration of "while start < text_length"
split_text_iteration ==
  /\ chunker.at = "while"
  /\ chunker.start < Len(chunker.document)
  /\ Len(chunker.chunks) < MaxChunks
  /\ LET end == min(chunker.start + chunker.chunk_size, Len(chunker.document))
     IN  chunker' =
           [chunker EXCEPT
              !.chunks = Append(@, slice(chunker.document, chunker.start, end)),
              !.start = chunker.start + chunker.chunk_size - chunker.overlap]

\* _split_text returns and chunk_document builds the chunk objects
chunk_document_returns ==
  /\ chunker.at = "while"
  /\ ~(chunker.start < Len(chunker.document))
  /\ chunker' =
       [chunker EXCEPT
          !.at = "returned",
          !.chunk_objects =
             [i \in 1..Len(chunker.chunks) |->
                [text |-> chunker.chunks[i],
                 doc_id |-> generate_doc_id(chunker.document),
                 chunk_index |-> i - 1,
                 total_chunks |-> Len(chunker.chunks),
                 chunk_size |-> Len(chunker.chunks[i])]]]

\* chunk_document is called again, with any document on any service
chunk_document_again ==
  /\ chunker.at = "returned"
  /\ \E document \in Documents, size \in 1..MaxChunkSize, lap \in 0..MaxChunkSize :
       chunker' = chunk_document_called(document, size, lap)

InitChunking ==
  /\ pending_actions = << >>
  /\ now = 0
  /\ api_key = FALSE
  /\ agent_llm = FALSE
  /\ pc = [p \in Procs |-> "idle"]
  /\ req = [p \in Procs |-> NoRequest]
  /\ action = [p \in Procs |-> NoRecord]
  /\ out = NoResponse
  /\ issued = << >>
  /\ last_list = NoList
  /\ cls_query = << >>
  /\ classification = NoClassification
  /\ faults = {}
  /\ graph = NoGraph
  /\ kb_hits = 0
  /\ mcp_server = NoServer
  /\ make_request = NoCall
  /\ \E document \in Documents, size \in 1..MaxChunkSize, lap \in 0..MaxChunkSize :
       chunker = chunk_document_called(document, size, lap)

NextChunking ==
  /\ \/ split_text_iteration
     \/ chunk_document_returns
     \/ chunk_document_again
  /\ UNCHANGED <<server_vars, issued, last_list, cls_query, classification,
                 faults, graph, kb_hits, mcp_server, make_request>>

SpecChunking ==
  InitChunking /\ [][NextChunking]_vars



\* ------------------------------------------------------------------------
\* DocumentChunker (backend/services/document/chunking.py): one call of
\* chunk_text
\* ------------------------------------------------------------------------

\* the longest text given to chunk_text
MaxInput == 5

\* the characters of a text: a capital, a small letter, a sentence
\* terminator and a whitespace
InputCharacters ==
  {"A", "b", ".", " "}

Inputs ==
  UNION { [1..n -> InputCharacters] : n \in 0..MaxInput }

\* \s
is_space(c) ==
  c = " "

\* str.strip()
RECURSIVE strip(_)
strip(s) ==
  IF Len(s) = 0 THEN s
  ELSE IF is_space(s[1]) THEN strip(Tail(s))
  ELSE IF is_space(s[Len(s)]) THEN strip(SubSeq(s, 1, Len(s) - 1))
  ELSE s

\* re.sub(r'\s+', ' ', text): every run of whitespace becomes one space
RECURSIVE collapse(_)
collapse(s) ==
  IF Len(s) = 0 THEN s
  ELSE IF is_space(s[1])
       THEN IF Len(s) > 1 /\ is_space(s[2])
            THEN collapse(Tail(s))
            ELSE <<" ">> \o collapse(Tail(s))
       ELSE <<s[1]>> \o collapse(Tail(s))

\* _clean_text
clean_text(text) ==
  strip(collapse(text))

\* where (?<=[.!?])\s+ matches in s, and with capital also (?=[A-Z]): the
\* whitespace at p follows a terminator (and precedes a capital); the text
\* is cleaned, so every run of whitespace is one character long
split_point(s, p, capital) ==
  /\ 1 < p
  /\ p <= Len(s)
  /\ is_space(s[p])
  /\ s[p - 1] = "."
  /\ capital => (p < Len(s) /\ s[p + 1] = "A")

\* re.split at the split points of s: the pieces between the matches
RECURSIVE re_split(_, _, _, _)
re_split(s, capital, from, p) ==
  IF p > Len(s) THEN << SubSeq(s, from, Len(s)) >>
  ELSE IF split_point(s, p, capital)
       THEN << SubSeq(s, from, p - 1) >> \o re_split(s, capital, p + 1, p + 1)
       ELSE re_split(s, capital, from, p + 1)

\* [s.strip() for s in sentences if s.strip()]
RECURSIVE stripped_sentences(_)
stripped_sentences(ss) ==
  IF Len(ss) = 0 THEN << >>
  ELSE IF strip(ss[1]) = << >> THEN stripped_sentences(Tail(ss))
  ELSE << strip(ss[1]) >> \o stripped_sentences(Tail(ss))

\* _split_into_sentences
split_into_sentences(text) ==
  LET first == re_split(text, TRUE, 1, 1)
      sentences == IF Len(first) = 1 THEN re_split(text, FALSE, 1, 1) ELSE first
  IN  stripped_sentences(sentences)

\* sum(len(s) for s in current_chunk)
RECURSIVE sum_len(_)
sum_len(ss) ==
  IF Len(ss) = 0 THEN 0 ELSE Len(ss[1]) + sum_len(Tail(ss))

\* chunk_text is called on a chunker with chunk_size and overlap
chunk_text_called(text, size, lap) ==
  [at |-> "called",
   text |-> text,
   chunk_size |-> size,
   overlap |-> lap,
   sentences |-> << >>,
   index |-> 1,
   chunks |-> << >>,
   current_chunk |-> << >>,
   current_length |-> 0]

\* chunk_text up to its "for": the empty text returns [], the text is
\* cleaned and split, and a text without sentences returns [text]
chunk_text_begins ==
  /\ chunker.at = "called"
  /\ LET text == clean_text(chunker.text)
         sentences == split_into_sentences(text)
     IN  chunker' =
           IF Len(chunker.text) = 0
           THEN [chunker EXCEPT !.at = "returned"]
           ELSE IF Len(sentences) = 0
                THEN [chunker EXCEPT !.at = "returned", !.chunks = << text >>]
                ELSE [chunker EXCEPT !.at = "for", !.sentences = sentences]

\* the body of "for sentence in sentences", once
chunk_text_iteration ==
  /\ chunker.at = "for"
  /\ chunker.index <= Len(chunker.sentences)
  /\ LET sentence == chunker.sentences[chunker.index]
         sentence_length == Len(sentence)
         overlap_sentences ==
           IF chunker.overlap > 0
           THEN slice(chunker.current_chunk, 0 - chunker.overlap,
                      Len(chunker.current_chunk))
           ELSE << >>
     IN  chunker' =
           IF /\ chunker.current_length + sentence_length > chunker.chunk_size
              /\ Len(chunker.current_chunk) > 0
           THEN [chunker EXCEPT
                   !.index = @ + 1,
                   !.chunks = Append(@, Join(chunker.current_chunk)),
                   !.current_chunk = overlap_sentences,
                   !.current_length = sum_len(overlap_sentences)]
           ELSE [chunker EXCEPT
                   !.index = @ + 1,
                   !.current_chunk = Append(@, sentence),
                   !.current_length = @ + sentence_length]

\* the "for" is over: the last chunk is added and chunk_text returns
chunk_text_returns ==
  /\ chunker.at = "for"
  /\ chunker.index > Len(chunker.sentences)
  /\ chunker' =
       [chunker EXCEPT
          !.at = "returned",
          !.chunks = IF Len(chunker.current_chunk) > 0
                     THEN Append(@, Join(chunker.current_chunk))
                     ELSE @]

InitDocument ==
  /\ pending_actions = << >>
  /\ now = 0
  /\ api_key = FALSE
  /\ agent_llm = FALSE
  /\ pc = [p \in Procs |-> "idle"]
  /\ req = [p \in Procs |-> NoRequest]
  /\ action = [p \in Procs |-> NoRecord]
  /\ out = NoResponse
  /\ issued = << >>
  /\ last_list = NoList
  /\ cls_query = << >>
  /\ classification = NoClassification
  /\ faults = {}
  /\ graph = NoGraph
  /\ kb_hits = 0
  /\ mcp_server = NoServer
  /\ make_request = NoCall
  /\ \E text \in Inputs, size \in 1..MaxChunkSize, lap \in 0..MaxChunkSize :
       chunker = chunk_text_called(text, size, lap)

NextDocument ==
  /\ \/ chunk_text_begins
     \/ chunk_text_iteration
     \/ chunk_text_returns
  /\ UNCHANGED <<server_vars, issued, last_list, cls_query, classification,
                 faults, graph, kb_hits, mcp_server, make_request>>

SpecDocument ==
  InitDocument /\ [][NextDocument]_vars
\* ------------------------------------------------------------------------
\* Properties
\* ------------------------------------------------------------------------

\* the messages that hold one of the words create, delete, update, change
DestructiveMessages ==
  { m \in Messages :
      \E w \in { w_create, w_delete, <<"u", "p", "d", "a", "t", "e">>, w_change } :
        Contains(lower(Text[m]), w) }

\* the slots awaiting agent.run for a confirm call
Confirming ==
  { p \in Procs : pc[p] # "idle" /\ req[p].kind = "confirm" }

\* C1: a chat request whose message holds create, delete, update or change
\* is answered with requires_confirmation and a pending action and no agent
\* run; the workflow runs for a stored action only in a confirm call that is
\* approved and names the id the chat response gave for it.
DestructiveAwaitsConfirmation ==
  /\ (out.request.kind = "chat" /\ out.request.message \in DestructiveMessages) =>
       /\ out.status = 200
       /\ out.body.requires_confirmation
       /\ out.body.pending_action # NoPending
       /\ out.body.pending_action.action_id \in Ids
       /\ out.run = NoRun
  /\ \A p \in Procs :
       (pc[p] # "idle" /\ req[p].kind = "chat") =>
         req[p].message \notin DestructiveMessages
  /\ \A p \in Confirming :
       /\ req[p].approved
       /\ action[p] # NoRecord
       /\ issued[action[p].created_at].action_id = req[p].action_id
  /\ \A i \in DOMAIN pending_actions :
       /\ pending_actions[i].query \in DestructiveMessages
       /\ issued[pending_actions[i].created_at].action_id = i

\* C1 witness: the workflow runs in an approved confirm call for the action
\* the latest chat response asked confirmation for
ConfirmRunsAfterApproval ==
  /\ out.request.kind = "chat"
  /\ out.request.message \in DestructiveMessages
  /\ \E p \in Confirming :
       /\ pc[p] = "running"
       /\ action[p].query = out.request.message
       /\ req[p].action_id = out.body.pending_action.action_id

\* C2 (as stated): on each action_id at most one confirm call ever succeeds
AtMostOneConfirmPerId ==
  \A i \in Ids :
    Cardinality({ c \in 1..Len(issued) :
                    issued[c].action_id = i /\ issued[c].resolved }) <= 1

\* C3: of the confirm calls in flight no two hold the same action_id or the
\* same record, and while one is in flight every other confirm call answered
\* on its id was answered 404 and ran nothing.
ConcurrentConfirmOnce ==
  /\ \A p, q \in Confirming :
       p # q => /\ req[p].action_id # req[q].action_id
                /\ action[p].created_at # action[q].created_at
  /\ \A p \in Confirming :
       (out.request.kind = "confirm" /\ out.request.action_id = req[p].action_id) =>
         /\ out.status = 404
         /\ out.run = NoRun
         /\ out.action = NoRecord
  /\ \A p \in Confirming : req[p].action_id \notin DOMAIN pending_actions

\* C3 witness: one confirm call holds the record and awaits the agent, the
\* other, approved too, has been answered 404 on the same id
RaceLoserNotFound ==
  \E p \in Confirming :
    /\ pc[p] = "running"
    /\ out.request.kind = "confirm"
    /\ out.request.approved
    /\ out.request.action_id = req[p].action_id
    /\ out.status = 404

\* the action type of the executor that a stored type stands for
ExecutorType(type) ==
  IF type = "update" THEN "update_ticket" ELSE type

\* C4 (as stated): what an approved confirm call executes is the action of
\* the type stored with the pending action
ExecutesStoredAction ==
  (out.request.kind = "confirm" /\ out.status = 200 /\ out.request.approved) =>
    /\ out.run.ran
    /\ out.run.executed.type = ExecutorType(out.action.type)

\* C5: a confirm call with approved = false on a stored id answers
\* "cancelled", has removed the record from the store and runs no agent and
\* no collaborator; no rejected call ever awaits the agent.
RejectCancels ==
  /\ (out.request.kind = "confirm" /\ out.status = 200 /\ ~out.request.approved) =>
       /\ out.body.status = "cancelled"
       /\ out.run = NoRun
       /\ out.action # NoRecord
       /\ issued[out.action.created_at] =
            [action_id |-> out.request.action_id, resolved |-> TRUE]
       /\ \A i \in DOMAIN pending_actions :
            pending_actions[i].created_at # out.action.created_at
  /\ \A p \in Confirming : req[p].approved

\* C5 witness: a rejection has been answered and its id is gone
RejectedAndGone ==
  /\ out.request.kind = "confirm"
  /\ ~out.request.approved
  /\ out.status = 200
  /\ out.body.status = "cancelled"
  /\ out.request.action_id \notin DOMAIN pending_actions

\* C6: a confirm call on an id that is not in the store is answered 404,
\* changes neither the store nor any slot and runs nothing; 404 is answered
\* to such calls only.
UnknownIdNotFound ==
  /\ [][(/\ out' # out
         /\ out'.request.kind = "confirm"
         /\ ~out'.run.ran
         /\ out'.request.action_id \notin DOMAIN pending_actions)
          => /\ out'.status = 404
             /\ out'.run = NoRun
             /\ UNCHANGED <<pending_actions, now, pc, req, action>>]_vars
  /\ [][(out' # out /\ out'.status = 404)
          => /\ out'.request.kind = "confirm"
             /\ out'.request.action_id \notin DOMAIN pending_actions
             /\ UNCHANGED <<pending_actions, now, pc, req, action>>]_vars
  /\ [][\A p \in Procs :
          (pc[p] = "idle" /\ pc'[p] # "idle" /\ req'[p].kind = "confirm")
            => req'[p].action_id \in DOMAIN pending_actions]_vars

\* C6 witness: 404 has been answered on an id while the store holds another
UnknownIdLeavesStore ==
  /\ out.status = 404
  /\ out.request.action_id \notin DOMAIN pending_actions
  /\ pending_actions # << >>

\* C7 (as stated): the store holds exactly the pending actions created and
\* not yet removed by a confirm call on their id
StoreIsCreatedMinusConfirmed ==
  \A c \in 1..Len(issued) :
    (~issued[c].resolved) <=>
      /\ issued[c].action_id \in DOMAIN pending_actions
      /\ pending_actions[issued[c].action_id].created_at = c

\* C8 (as stated): the id of a pending action being created is not the id of
\* any record in the store, so that no record is overwritten
FreshActionId ==
  [][now' = now + 1 =>
       /\ out'.body.pending_action.action_id \notin DOMAIN pending_actions
       /\ \A i \in DOMAIN pending_actions : pending_actions'[i] = pending_actions[i]]_vars

\* C9 (as stated): a list call leaves the store as it was, and two list
\* calls with no confirm call between them return the same
ListsAgreeWithoutConfirm ==
  /\ last_list.n > 0 => last_list.before = last_list.after
  /\ last_list.n = 2 => last_list.a = last_list.b

\* C9 (amended): a list call leaves the store as it was, and two list calls
\* with between them no confirm call and no chat request that created a
\* pending action return the same actions and the same count
ListsAgreeWithoutConfirmOrCreate ==
  /\ last_list.n > 0 => last_list.before = last_list.after
  /\ (last_list.n = 2 /\ ~last_list.created) =>
       /\ last_list.a.actions = last_list.b.actions
       /\ last_list.a.pending_count = last_list.b.pending_count

\* C9 witness: two list calls of a store that holds a record, a chat request
\* answered between them
ListedTwice ==
  /\ last_list.n = 2
  /\ ~last_list.created
  /\ last_list.b.pending_count > 0
  /\ out.request.kind = "pending"
  /\ \E p \in Procs : pc[p] = "running"

\* the query matches one of the patterns
Matches(patterns) ==
  \E i \in 1..Len(patterns) : Contains(lower(cls_query), patterns[i])

\* C10: a query that matches an action pattern is classified Action, whether
\* or not it matches a triage pattern; Triage is the result only when no
\* action pattern matches.
ActionBeforeTriage ==
  classification # NoClassification =>
    /\ Matches(action_keywords) => classification.intent = ACTION_INTENT
    /\ classification.intent = TRIAGE => ~Matches(action_keywords)

\* C10 witness: a query that matches a pattern of both lists is classified
\* Action
BothMatchIsAction ==
  /\ classification.intent = ACTION_INTENT
  /\ Matches(action_keywords)
  /\ Matches(triage_keywords)

\* C11: a query that matches no action pattern and no triage pattern, the
\* empty query too, is classified DirectAnswer with confidence 0.5.
NoMatchIsDirectAnswer ==
  (/\ classification # NoClassification
   /\ ~Matches(action_keywords)
   /\ ~Matches(triage_keywords))
    => /\ classification.intent = DIRECT_ANSWER
       /\ classification.confidence = 5

\* C11 witness: the empty query has been classified DirectAnswer
EmptyQueryIsDirectAnswer ==
  /\ cls_query = << >>
  /\ classification.intent = DIRECT_ANSWER
  /\ classification.confidence = 5

\* C12: classify answers every query with (Action, 0.7), (Triage, 0.8) or
\* (DirectAnswer, 0.5), never with Unknown, and a query that matches a triage
\* pattern and no action pattern gets (Triage, 0.8).
ThreeClassifications ==
  /\ classify(cls_query).intent \in {ACTION_INTENT, TRIAGE, DIRECT_ANSWER}
  /\ classification # NoClassification =>
       /\ <<classification.intent, classification.confidence>> \in
            { <<ACTION_INTENT, 7>>, <<TRIAGE, 8>>, <<DIRECT_ANSWER, 5>> }
       /\ classification.intent # UNKNOWN
       /\ (Matches(triage_keywords) /\ ~Matches(action_keywords)) =>
            <<classification.intent, classification.confidence>> = <<TRIAGE, 8>>

\* C12 witness: a query in capitals that matches a triage pattern only has
\* been classified Triage
TriageOnlyIsTriage ==
  /\ cls_query = w_PROJ_1
  /\ ~Matches(action_keywords)
  /\ <<classification.intent, classification.confidence>> = <<TRIAGE, 8>>

\* C13 (as stated): the create-ticket tool is called only in a workflow run
\* that an approved confirm call started, never in one a chat request started
CreateTicketOnlyAfterApproval ==
  "create_ticket" \in out.run.calls =>
    /\ out.request.kind = "confirm"
    /\ out.request.approved

\* C14: in a run of the workflow the stages are entered in the order scout,
\* plan, execute, each once, and the run has ended after execute: at every
\* node the stages entered so far are exactly those before it.
StagesInOrder ==
  graph # NoGraph =>
    /\ graph.node \in {"START", "scout", "plan", "execute", "END", "raised"}
    /\ graph.state.stages =
         CASE graph.node = "START" -> << >>
           [] graph.node = "raised" -> << >>
           [] graph.node = "scout" -> << >>
           [] graph.node = "plan" -> <<"scout">>
           [] graph.node = "execute" -> <<"scout", "plan">>
           [] graph.node = "END" -> <<"scout", "plan", "execute">>
           [] OTHER -> <<"none">>

\* C14 witness: a run has ended after its three stages, the last of which
\* called a tool
RunEndedAfterThreeStages ==
  /\ graph # NoGraph
  /\ graph.node = "END"
  /\ graph.state.stages = <<"scout", "plan", "execute">>
  /\ "create_ticket" \in graph.state.calls

\* C15 (as stated): when the language model's answer holds no usable JSON the
\* plan stage returns the decision of the rule-based planner
UnparseableFallsBackToRules ==
  (/\ graph # NoGraph
   /\ graph.node = "execute"
   /\ graph.state.llm_output = "unparseable")
    => /\ graph.state.pending_action = mock_plan_node(graph.state).pending_action
       /\ graph.state.last = mock_plan_node(graph.state).last

\* C16: when the ticket fetch of the scout stage fails, the stage still runs
\* its knowledge-base block and returns: the state handed to the next node
\* keeps the query, records how the knowledge-base block ended, and holds
\* documents exactly when that block found some.
TrackerFailureStillScoutsKnowledgeBase ==
  (/\ graph # NoGraph
   /\ graph.node \in {"plan", "execute", "END"}
   /\ "get_ticket_status" \in graph.state.failed)
    => /\ graph.state.kb \in {"hits", "failed"}
       /\ (graph.state.docs > 0) <=> (graph.state.kb = "hits")
       /\ graph.state.query \in Messages
       /\ graph.state.stages[1] = "scout"
       /\ ~graph.state.jira_context

\* C16 witness: the scout stage has returned after a failed ticket fetch
ScoutReturnedAfterTrackerFailure ==
  /\ graph # NoGraph
  /\ graph.node = "plan"
  /\ "get_ticket_status" \in graph.state.failed
  /\ graph.state.kb = "failed"
  /\ graph.state.last[1] = "Could not fetch ticket"

\* C17: when the knowledge-base block of the scout stage fails, the stage
\* still returns: the state handed on holds no documents, a ticket fetched
\* before the failure is still in it with its message, and the broad search
\* was decided afterwards (issued when the query names no ticket).
KnowledgeBaseFailureAbsorbed ==
  (/\ graph # NoGraph
   /\ graph.node \in {"plan", "execute", "END"}
   /\ graph.state.kb = "failed")
    => /\ graph.state.docs = 0
       /\ graph.state.stages[1] = "scout"
       /\ ("get_ticket_status" \in graph.state.calls \ graph.state.failed)
            => graph.state.jira_context
       /\ (graph.node = "plan"
             /\ "get_ticket_status" \in graph.state.calls \ graph.state.failed)
            => graph.state.last = <<"Found Jira ticket", graph.state.ticket_id>>
       /\ (graph.state.ticket_id = << >>)
            => "search_tickets" \in graph.state.calls

\* C17 witness: the scout stage has returned with a fetched ticket kept over
\* a failed knowledge-base block
TicketKeptOverKnowledgeBaseFailure ==
  /\ graph # NoGraph
  /\ graph.node = "plan"
  /\ graph.state.kb = "failed"
  /\ graph.state.jira_context
  /\ graph.state.last[1] = "Found Jira ticket"

\* C18: once the scout stage has returned, the broad ticket search has been
\* issued exactly when the query named no ticket and the knowledge base gave
\* no documents; and before it runs, its condition issues the search for a
\* scratchpad exactly when that scratchpad has neither a ticket id nor
\* documents.
BroadSearchExactlyWithoutContext ==
  /\ (graph # NoGraph /\ graph.node \in {"plan", "execute", "END"})
       => ("search_tickets" \in graph.state.calls
             <=> (graph.state.ticket_id = << >> /\ graph.state.docs = 0))
  /\ (graph # NoGraph /\ graph.node = "scout")
       => \A d \in 0 .. 1 : \A t \in {<< >>, extract_ticket_id(Text[graph.state.query])} :
            \A s \in broad_search([graph.state EXCEPT !.docs = d, !.ticket_id = t]) :
              "search_tickets" \in s.calls <=> (t = << >> /\ d = 0)

\* C18 witness: a scout stage returned without the broad search because the
\* query named a ticket
NoBroadSearchWithTicketId ==
  /\ graph # NoGraph
  /\ graph.node = "plan"
  /\ graph.state.ticket_id # << >>
  /\ graph.state.docs = 0
  /\ "search_tickets" \notin graph.state.calls

\* C19: the execute stage always returns, and a run whose create_ticket or
\* Slack call failed ends with a message that begins with the cross mark.
ExecuteFailureIsReported ==
  graph # NoGraph =>
    /\ (graph.node = "execute") => \E s \in execute_node(graph.state) : TRUE
    /\ (graph.node = "END"
          /\ graph.state.failed \cap {"create_ticket", "get_slack_messages"} # {})
         => /\ graph.state.last[1] = "cross mark"
            /\ graph.state.stages = <<"scout", "plan", "execute">>

\* C19 witness: a run has ended after create_ticket failed
RunEndedAfterFailedCreate ==
  /\ graph # NoGraph
  /\ graph.node = "END"
  /\ "create_ticket" \in graph.state.failed
  /\ graph.state.last = <<"cross mark", "Failed to create ticket">>

\* C20: every chat request is answered.  A request whose handler is waiting
\* for agent.run gets a return from it whether or not the workflow raises;
\* when the workflow raises the answer is a normal response whose text is
\* "Agent execution failed" with the message of the exception; when a service
\* of the handler raises the answer is HTTP 500 with the message of the
\* exception; no other status is answered.
ChatAlwaysAnswered ==
  /\ \A p \in Procs :
       /\ pc[p] \in {"idle", "running"}
       /\ pc[p] = "running" =>
            /\ req[p].kind = "chat"
            /\ llm_property # {}
            /\ \A l \in llm_property : \E fin \in agent_run(req[p].message, l) : TRUE
  /\ out.request.kind = "chat" =>
       /\ out.status \in {200, 500}
       /\ out.status = 500 <=> faults \cap {"agent", "qdrant"} # {}
       /\ out.status = 500 =>
            /\ out.body.kind = "error"
            /\ out.body.detail \in {<<"agent">>, <<"qdrant">>}
            /\ out.body.detail[1] \in faults
       /\ (out.status = 200 /\ out.run.ran /\ "workflow" \in faults) =>
            /\ out.body.response[1] = "Agent execution failed"
            /\ out.body.response[2] = "workflow"
       /\ (out.status = 200 /\ out.run.ran /\ "workflow" \notin faults) =>
            out.body.response[1] # "Agent execution failed"

\* C20 witness: a chat request was answered with the text of the except
\* branch of run
ChatAnsweredAfterWorkflowRaised ==
  /\ out.request.kind = "chat"
  /\ out.status = 200
  /\ "workflow" \in faults
  /\ out.body.response[1] = "Agent execution failed"
  /\ out.body.response[2] = "workflow"
  /\ \A p \in Procs : pc[p] = "idle"

\* C21 (as stated): a run for a query classified triage that names a ticket
\* the scout stage fetched plans get_status and ends with the status text
\* that names the ticket.
TriageTicketGetsStatus ==
  (/\ graph # NoGraph
   /\ graph.node = "END"
   /\ classify(Text[graph.state.query]).intent = TRIAGE
   /\ graph.state.ticket_id # << >>
   /\ graph.state.jira_context)
    => /\ graph.state.pending_action.type = "get_status"
       /\ graph.state.last = <<"clipboard", "PROJ-1">>

\* C22 (as stated): an approved confirm call on a pending action of type
\* create_ticket, with every service available, answers "executed" and has
\* called create_ticket.
ApprovedCreateCreatesTicket ==
  (/\ out.request.kind = "confirm"
   /\ out.status = 200
   /\ out.request.approved
   /\ out.action.type = "create_ticket"
   /\ faults = {})
    => /\ out.body.status = "executed"
       /\ out.run.executed.type = "create_ticket"
       /\ "create_ticket" \in out.run.calls

\* C23 (as stated): the response to a chat request classified direct answer,
\* sent while the knowledge store holds n > 0 documents for the query, has a
\* sources list of length n.
DirectAnswerCarriesSources ==
  (/\ out.request.kind = "chat"
   /\ out.status = 200
   /\ out.body.intent = DIRECT_ANSWER
   /\ kb_hits > 0)
    => Len(out.body.sources) = kb_hits

\* a step of chat_endpoint serving the message m: it reaches the await of
\* agent.run, returns from it, or answers without running the agent
ChatStep(m) ==
  \E p \in Procs :
    \/ /\ pc[p] = "idle" /\ pc'[p] = "running"
       /\ req'[p].kind = "chat" /\ req'[p].message = m
    \/ /\ pc[p] = "running" /\ pc'[p] = "idle"
       /\ req[p].kind = "chat" /\ req[p].message = m
    \/ /\ pc' = pc
       /\ out'.request.kind = "chat" /\ out'.request.message = m
       /\ (out' # out \/ now' # now)

\* the action requests without any of the words create, delete, update,
\* change
NonDestructiveActions ==
  { m \in Messages :
      /\ classify(Text[m]).intent = ACTION_INTENT
      /\ \A word \in DestructiveWords : ~Contains(lower(Text[m]), word) }

\* the requests classified triage or direct answer
ReadOnlyRequests ==
  { m \in Messages : classify(Text[m]).intent \in {TRIAGE, DIRECT_ANSWER} }

\* C24: a chat request classified action whose message has none of the words
\* create, delete, update, change goes to agent.run in the step that takes
\* it, is answered with requires_confirmation false, no pending action and
\* the result of that run, and no step of its handler changes the store.
NonDestructiveActionRunsAtOnce ==
  /\ [](\A m \in NonDestructiveActions :
          (/\ out.request.kind = "chat"
           /\ out.request.message = m
           /\ out.status = 200)
            => /\ ~out.body.requires_confirmation
               /\ out.body.pending_action = NoPending
               /\ out.run.ran)
  /\ [][\A m \in NonDestructiveActions :
          ChatStep(m)
            => /\ pending_actions' = pending_actions
               /\ now' = now
               /\ faults \cap {"agent", "qdrant"} = {} => pc' # pc]_vars

\* C24 witness: "deploy" was answered from an agent run while the store
\* held a pending action
DeployAnsweredOverFullStore ==
  /\ out.request.kind = "chat"
  /\ out.request.message = "deploy"
  /\ out.status = 200
  /\ out.run.ran
  /\ ~out.body.requires_confirmation
  /\ DOMAIN pending_actions # {}

\* C25: a chat request classified triage or direct answer is answered with
\* requires_confirmation false and no pending action, and no step of its
\* handler changes the store or creates a pending action.
ReadOnlyRequestCreatesNothing ==
  /\ [](\A m \in ReadOnlyRequests :
          (/\ out.request.kind = "chat"
           /\ out.request.message = m
           /\ out.status = 200)
            => /\ ~out.body.requires_confirmation
               /\ out.body.pending_action = NoPending)
  /\ [][\A m \in ReadOnlyRequests :
          ChatStep(m)
            => /\ pending_actions' = pending_actions
               /\ now' = now]_vars

\* C25 witness: a triage request was answered while the store held a pending
\* action
TriageAnsweredOverFullStore ==
  /\ out.request.kind = "chat"
  /\ out.request.message = "status of PROJ-1"
  /\ out.body.kind = "chat"
  /\ out.body.intent = TRIAGE
  /\ ~out.body.requires_confirmation
  /\ DOMAIN pending_actions # {}

\* C26: the step of chat_endpoint that creates a pending action also sends
\* the response, with requires_confirmation true and no agent run, and
\* leaves no request slot waiting: the slots and their locals are as before,
\* and the store has gained the record under the id the response names.  No
\* slot ever waits in agent.run for a message that needs confirmation.
ConfirmationDoesNotBlock ==
  /\ [](\A p \in Procs :
          (pc[p] = "running" /\ req[p].kind = "chat")
            => req[p].message \notin Confirmable)
  /\ [][now' = now + 1 =>
          /\ out'.request.kind = "chat"
          /\ out'.status = 200
          /\ out'.body.requires_confirmation
          /\ out'.run = NoRun
          /\ pc' = pc /\ req' = req /\ action' = action
          /\ LET id == out'.body.pending_action.action_id
             IN  /\ id \in DOMAIN pending_actions'
                 /\ pending_actions'[id].query = out'.request.message
                 /\ pending_actions'[id].created_at = now'
                 /\ \A i \in DOMAIN pending_actions' \ {id} :
                      i \in DOMAIN pending_actions
                        /\ pending_actions'[i] = pending_actions[i]]_vars

\* C26 witness: a request that needs confirmation has been answered, every
\* slot is free and no confirm call has been made
AnsweredBeforeAnyConfirm ==
  /\ out.request.kind = "chat"
  /\ out.status = 200
  /\ out.body.requires_confirmation
  /\ \A p \in Procs : pc[p] = "idle"
  /\ out.body.pending_action.action_id \in DOMAIN pending_actions
  /\ \A c \in 1..Len(issued) : ~issued[c].resolved

\* the messages whose lowercased text contains "create"
CreateRequests ==
  { m \in Messages : Contains(lower(Text[m]), w_create) }

\* C27: the pending action created for a message has type create_ticket
\* when the lowercased message contains "create" and type update otherwise,
\* and the response's pending_action reports the type that was stored.
PendingTypeFromCreateWord ==
  /\ [](\A i \in DOMAIN pending_actions :
          pending_actions[i].type =
            IF pending_actions[i].query \in CreateRequests
            THEN "create_ticket" ELSE "update")
  /\ [][now' = now + 1 =>
          LET id == out'.body.pending_action.action_id
          IN  /\ out'.body.pending_action.action_type = pending_actions'[id].type
              /\ pending_actions'[id].query = out'.request.message
              /\ pending_actions'[id].type =
                   IF out'.request.message \in CreateRequests
                   THEN "create_ticket" ELSE "update"]_vars

\* C27 witness: the store holds a record of each type, the update one just
\* reported by the response that created it
BothTypesStored ==
  /\ out.request.kind = "chat"
  /\ out.status = 200
  /\ out.body.requires_confirmation
  /\ out.request.message \notin CreateRequests
  /\ out.body.pending_action.action_type = "update"
  /\ \E i, j \in DOMAIN pending_actions :
       /\ pending_actions[i].type = "update"
       /\ pending_actions[j].type = "create_ticket"

\* C28: a newly constructed server is not running; once start has returned
\* on it, and until the next call, is_running is true and health_check
\* reports "healthy"; once a following stop has returned, is_running is
\* false.
ServerLifecycle ==
  mcp_server # NoServer =>
    /\ (mcp_server.history = << >> /\ mcp_server.method = "none")
         => ~is_running
    /\ (mcp_server.history = <<"start">> /\ mcp_server.method = "none")
         => (is_running /\ health_check = "healthy")
    /\ (mcp_server.history = <<"start", "stop">> /\ mcp_server.method = "none")
         => (~is_running /\ health_check = "stopped")

\* C28 witness: start and then stop have returned and the server thread has
\* ended
StartedThenStopped ==
  /\ mcp_server # NoServer
  /\ mcp_server.history = <<"start", "stop">>
  /\ mcp_server.method = "none"
  /\ mcp_server.threads = <<"dead">>
  /\ ~is_running

\* C29 (as stated): once restart has returned on a running server,
\* is_running is true until the next call.
RestartLeavesRunning ==
  (/\ mcp_server # NoServer
   /\ mcp_server.history = <<"start", "restart">>
   /\ mcp_server.method = "none")
    => is_running

\* C30 (as stated): a call of _make_request with max_retries = 3 that got
\* HTTP 500 from every request it sent has sent three requests when it
\* fails, and fails with "External API error".
RetriesThreeTimesOn500 ==
  (/\ make_request # NoCall
   /\ make_request.at = "raised"
   /\ make_request.api_base_url
   /\ make_request.max_retries = 3
   /\ make_request.replies # << >>
   /\ \A i \in 1..Len(make_request.replies) : make_request.replies[i] = 500)
    => /\ make_request.requests = 3
       /\ make_request.detail = "External API error"

\* C31: a call of _make_request on a server without an API base URL sends
\* no request, and when it has failed it has failed with status 500 and
\* "API base URL not configured".
NoBaseUrlFailsBeforeSending ==
  (make_request # NoCall /\ ~make_request.api_base_url) =>
    /\ make_request.requests = 0
    /\ make_request.replies = << >>
    /\ make_request.at \in {"called", "raised"}
    /\ make_request.at = "raised" =>
         /\ make_request.status_code = 500
         /\ make_request.detail = "API base URL not configured"

\* C31 witness: a call without a base URL has failed
FailedWithoutBaseUrl ==
  /\ make_request # NoCall
  /\ ~make_request.api_base_url
  /\ make_request.max_retries = 3
  /\ make_request.at = "raised"
  /\ make_request.detail = "API base URL not configured"

\* C38 (as stated): a call of _make_request sends at most max_retries
\* requests; it goes on after an answer only when that answer was a
\* transport failure, so that every HTTP response ends it; it returns only
\* on a 200; and after max_retries transport failures it has failed with 503
\* "External API unavailable".
EveryResponseEndsTheCall ==
  make_request # NoCall =>
    /\ make_request.requests <= make_request.max_retries
    /\ make_request.retry_count <= make_request.max_retries
    /\ make_request.at \in {"loop", "sent"} =>
         \A i \in 1..Len(make_request.replies) :
           make_request.replies[i] = RequestException
    /\ make_request.at = "returned" =>
         make_request.replies[Len(make_request.replies)] = 200
    /\ (/\ make_request.at = "raised"
        /\ make_request.max_retries > 0
        /\ Len(make_request.replies) = make_request.max_retries
        /\ \A i \in 1..Len(make_request.replies) :
             make_request.replies[i] = RequestException)
         => /\ make_request.status_code = 503
            /\ make_request.detail = "External API unavailable"

\* C32 (as stated): when _split_text has split a text longer than the chunk
\* size with an overlap o, 0 < o < chunk size, every chunk after the first
\* begins with the last o characters of the chunk before it and no chunk is
\* longer than the chunk size.
ChunksBeginWithOverlap ==
  (/\ chunker # NoChunking
   /\ chunker.at = "returned"
   /\ Len(chunker.document) > chunker.chunk_size
   /\ 0 < chunker.overlap
   /\ chunker.overlap < chunker.chunk_size)
    => \A k \in 1..Len(chunker.chunks) :
         /\ Len(chunker.chunks[k]) <= chunker.chunk_size
         /\ k > 1 =>
              LET before == chunker.chunks[k - 1]
                  tail == slice(before, Len(before) - chunker.overlap, Len(before))
              IN  /\ Len(chunker.chunks[k]) >= Len(tail)
                  /\ SubSeq(chunker.chunks[k], 1, Len(tail)) = tail

\* C39 (as stated): chunk_document terminates, every iteration of the loop
\* of _split_text moving start forward, and what it returns covers the
\* document: every position lies in a chunk, chunk_index runs 0..n-1 in
\* order, and every chunk carries the document's doc_id and total_chunks = n.
ChunkDocumentTerminatesAndCovers ==
  /\ [][(chunker.at = "while" /\ chunker'.at = "while")
          => chunker'.start > chunker.start]_vars
  /\ [](chunker.at = "returned" =>
          LET n == Len(chunker.chunk_objects)
              step == chunker.chunk_size - chunker.overlap
          IN  /\ \A i \in 1..Len(chunker.document) :
                   \E k \in 1..n :
                     /\ (k - 1) * step < i
                     /\ i <= (k - 1) * step + Len(chunker.chunk_objects[k].text)
                     /\ chunker.chunk_objects[k].text =
                          SubSeq(chunker.document, (k - 1) * step + 1,
                                 (k - 1) * step + Len(chunker.chunk_objects[k].text))
              /\ \A k \in 1..n :
                   /\ chunker.chunk_objects[k].chunk_index = k - 1
                   /\ chunker.chunk_objects[k].total_chunks = n
                   /\ chunker.chunk_objects[k].doc_id = chunker.chunk_objects[1].doc_id)



\* C40: DocumentChunker.chunk_text loses no content: for every non-empty
\* text, every sentence of the cleaned text appears in at least one returned
\* chunk, and the sentences appear in the original order (a later sentence
\* is found in the same chunk as an earlier one or in a later chunk)
ChunkTextLosesNoSentence ==
  (/\ chunker.at = "returned"
   /\ Len(chunker.text) > 0)
    => LET sentences == split_into_sentences(clean_text(chunker.text))
           holds(k, i) == Contains(chunker.chunks[k], sentences[i])
       IN  /\ \A i \in 1..Len(sentences) :
                \E k \in 1..Len(chunker.chunks) : holds(k, i)
           /\ \A i, j \in 1..Len(sentences) :
                i < j => \E k, l \in 1..Len(chunker.chunks) :
                           k <= l /\ holds(k, i) /\ holds(l, j)


\* C33 (as stated): an approved confirm call removes the pending action
\* before the execution starts and the action_id stays out of the store:
\* it is absent while the agent is awaited and when the call is answered,
\* whether the answer is the execution's result or the failure to obtain
\* the agent
ApprovedActionStaysRemoved ==
  /\ [](\A p \in Procs :
          (pc[p] = "running" /\ req[p].kind = "confirm")
            => req[p].action_id \notin DOMAIN pending_actions)
  /\ [][(/\ out' # out
         /\ out'.request.kind = "confirm"
         /\ out'.request.approved
         /\ out'.status # 404)
          => out'.request.action_id \notin DOMAIN pending_actions']_vars


\* C34: an approved confirm call on a stored id is answered "executed"
\* whenever agent.run returns, also when the returned text is a failure
\* message; "failed" is answered only when agent.run itself raised, that is
\* when no run returned; without an agent the call is answered HTTP 500
ApprovedConfirmExecutedWhenRunReturns ==
  (/\ out.request.kind = "confirm"
   /\ out.request.approved
   /\ out.status # 404)
    => /\ out.status \in {200, 500}
       /\ out.status = 500 <=> "agent" \in faults
       /\ out.status = 200 =>
            /\ out.body.status \in {"executed", "failed"}
            /\ out.run.ran <=> out.body.status = "executed"
            /\ out.body.status = "executed" => Len(out.body.result) > 0
            /\ "workflow" \in faults =>
                 /\ out.body.status = "executed"
                 /\ out.body.result[1] = "Agent execution failed"

\* C34 witness: an approved confirm call was answered "executed" with the
\* text of a workflow that raised
ExecutedWithFailureMessage ==
  /\ out.request.kind = "confirm"
  /\ out.request.approved
  /\ out.status = 200
  /\ out.body.status = "executed"
  /\ out.body.result[1] = "Agent execution failed"
  /\ out.run.ran


\* C35: in every chat response requires_confirmation is true exactly when
\* pending_action is present, exactly when no agent run was made for the
\* request; and when such a response is returned the action_id it carries
\* is a key of the store, under which the request's message is held
ConfirmationCarriesStoredAction ==
  /\ []((out.request.kind = "chat" /\ out.status = 200)
          => /\ out.body.requires_confirmation <=> out.body.pending_action # NoPending
             /\ out.body.requires_confirmation <=> ~out.run.ran
             /\ out.body.requires_confirmation =>
                  /\ out.body.pending_action.action_id \in Ids
                  /\ out.run = NoRun)
  /\ [][(now' = now + 1)
          => /\ out'.request.kind = "chat"
             /\ out'.body.requires_confirmation
             /\ out'.body.pending_action.action_id \in DOMAIN pending_actions'
             /\ pending_actions'[out'.body.pending_action.action_id].query
                  = out'.request.message
             /\ pc' = pc]_vars
  /\ [][(/\ out' # out
         /\ out'.request.kind = "chat"
         /\ out'.status = 200
         /\ out'.body.requires_confirmation)
          => now' = now + 1]_vars

\* C35 witness: a chat request was answered with a pending action whose id
\* is in the store with the request's message, while another request is
\* waiting for its agent run
PendingAnsweredFromStore ==
  /\ out.request.kind = "chat"
  /\ out.status = 200
  /\ out.body.requires_confirmation
  /\ out.body.pending_action.action_id \in DOMAIN pending_actions
  /\ pending_actions[out.body.pending_action.action_id].query = out.request.message
  /\ out.run = NoRun
  /\ \E p \in Procs : pc[p] = "running" /\ req[p].kind = "chat"


\* the server threads that are inside _server_main_loop
InMainLoop ==
  { t \in DOMAIN mcp_server.threads : mcp_server.threads[t] \in {"loop", "loop_event"} }

\* C36 (as stated): over every sequence of start, stop and restart calls at
\* most one server thread is inside the main loop; a start on a running
\* server creates no thread and a stop on a server that is not running
\* changes nothing
AtMostOneThreadInMainLoop ==
  /\ [](mcp_server # NoServer => Cardinality(InMainLoop) <= 1)
  /\ [][(/\ mcp_server.main = "start"
         /\ mcp_server._running
         /\ mcp_server'.main # "start")
          => /\ mcp_server'.threads = mcp_server.threads
             /\ mcp_server'._server_thread = mcp_server._server_thread
             /\ mcp_server'._running
             /\ mcp_server'.main = "ready"]_vars
  /\ [][(/\ mcp_server.main = "stop"
         /\ ~mcp_server._running
         /\ mcp_server'.main # "stop")
          => /\ mcp_server'.threads = mcp_server.threads
             /\ mcp_server'._server_thread = mcp_server._server_thread
             /\ ~mcp_server'._running
             /\ mcp_server'._shutdown_event = mcp_server._shutdown_event
             /\ mcp_server'.main \in {"ready", "restart_sleep"}]_vars


\* start has set the flag and has not yet started its server thread
StartingThread ==
  mcp_server.main \in {"start_clear", "start_thread"}

\* C37 (as stated): is_running is true only while the server thread of the
\* latest start is alive (or about to be started); a server thread that
\* ends leaves the flag false; and a server thread whose end turns the flag
\* from true to false is the thread of the latest start, never an earlier
\* one after a later start has set the flag
RunningFlagFollowsLatestThread ==
  /\ []((mcp_server # NoServer /\ is_running)
          => \/ StartingThread
             \/ /\ mcp_server.threads # << >>
                /\ mcp_server.threads[Len(mcp_server.threads)] # "dead")
  /\ [][\A t \in DOMAIN mcp_server.threads :
          (mcp_server.threads[t] # "dead" /\ mcp_server'.threads[t] = "dead")
            => ~mcp_server'._running]_vars
  /\ [][\A t \in DOMAIN mcp_server.threads :
          (/\ mcp_server.threads[t] # "dead"
           /\ mcp_server'.threads[t] = "dead"
           /\ mcp_server._running)
            => /\ t = Len(mcp_server.threads)
               /\ ~StartingThread]_vars
TypeOK ==
  /\ DOMAIN pending_actions \subseteq Ids
  /\ now \in 0..MaxActions
  /\ agent_llm \in BOOLEAN
  /\ \A p \in Procs : pc[p] \in {"idle", "running"}


====
